---- MODULE Spec2Model ----
(***************************************************************************)
(* Model of the aggregation / change-detection pipeline of                 *)
(* dexflow_realtime: AggregatorService (merge, deduplicate, filter, sort,  *)
(* paginate) and WebSocketService (timer-driven polling cycle, snapshot    *)
(* diff, event emission).                                                  *)
(*                                                                         *)
(* Numbers: price_sol is counted in units of 1e-9 SOL and volume_sol in    *)
(* units of 1e-6 SOL, so that the two floating point thresholds of the     *)
(* change detector (1e-9 and 1e-6) are each one unit.  Arithmetic is exact *)
(* (rational); floating point rounding is not modelled.                    *)
(* Strings that the code transforms (addresses: toLowerCase, cursors:      *)
(* parseInt / toString) are sequences of one-character strings.            *)
(* Optional values (T | undefined, T | null) are <<>> or <<v>>.            *)
(***************************************************************************)
EXTENDS Integers, Sequences, FiniteSets, TLC

VARIABLES
  \* ---- AggregatorService, one call ----
  dexUpstream,       \* what the DexScreener endpoint answers during this call
  jupUpstream,       \* what the Jupiter endpoint answers during this call
  aggQuery,          \* the TokenQuery of the call
  pairIn,            \* the two (nullable) records handed to mergeTokenData
  aggOp,             \* which operation has run: "idle" before any
  aggOut,            \* what the operation returned
  \* ---- WebSocketService ----
  previousTokenData, \* Map<string, Token>: the snapshot map
  isRunning,         \* this.isRunning
  updateInterval,    \* TRUE while the setInterval timer is armed
  inFlight,          \* cycles started whose aggregate fetch has not returned
  \* ---- history of the last completed cycle ----
  snapBefore,        \* previousTokenData when the pass began
  lastList,          \* Some(the token list the cycle diffed), Absent if it had none
  lastEvents,        \* the events the cycle emitted, in order
  repeated,          \* the cycle diffed the same list as the cycle before it
  newCount,          \* per address: new_token events emitted so far
  \* ---- RateLimiter ----
  maxRequests,       \* this.maxRequests, set by the constructor
  windowMs,          \* this.windowMs, set by the constructor
  requestCounts,     \* Map<string, RateLimitInfo>, absent keys map to Absent
  now,               \* Date.now(), in units of baseDelay (1000 ms)
  waiter,            \* the position and locals of one waitForSlot call
  \* ---- history of the RateLimiter ----
  rlLast,            \* the last call made on the limiter and what it returned
  admitLog,          \* per identifier: the instants of the admitted requests
  windowLog,         \* per identifier: the instants at which a window opened
  purge,             \* per identifier its last admission check; the map never cleaned
  \* ---- CacheService ----
  isConnected,       \* this.isConnected
  redis,             \* the store behind this.client: key -> entry, or Absent
  scan,              \* a deletePattern between KEYS and DEL: pattern and keys
  \* ---- history of the CacheService ----
  cacheLast,         \* the last call made on the cache and what it returned
  lastSet,           \* per key: the value and ttl of the last set that succeeded
  \* ---- AggregatorService.searchTokens through the cache ----
  searchCall,        \* the query of a search that missed and awaits the sources
  searchLast,        \* the last search that returned: query, result, calls
  \* ---- requests and connections ----
  walk,              \* a client paging through listFiltered: query, cursor, pages
  ctl,               \* TokenController.getTokens: the request and its answer
  tokenLast,         \* the last getTokenByAddress that returned
  source,            \* one searchTokens call of a source client, and its steps
  sockets,           \* per socket id its connection and initial_data; the cycle alone
  eventLoop          \* the diff passes begun and where each is; the handlers run

aggVars == <<dexUpstream, jupUpstream, aggQuery, pairIn, aggOp, aggOut>>
wsVars == <<previousTokenData, isRunning, updateInterval, inFlight>>
histVars == <<snapBefore, lastList, lastEvents, repeated, newCount>>
rlVars == <<maxRequests, windowMs, requestCounts, now, waiter>>
rlHist == <<rlLast, admitLog, windowLog, purge>>
cacheVars == <<isConnected, redis, scan, cacheLast, lastSet>>
searchVars == <<searchCall, searchLast>>
frontVars == <<walk, ctl, tokenLast, source, sockets, eventLoop>>
extVars == <<rlVars, rlHist, cacheVars, searchVars, frontVars>>
vars == <<aggVars, wsVars, histVars, extVars>>

----------------------------------------------------------------------------
(* Bounds *)

\* longest result list one source returns
MaxSrcLen == 2
\* polling cycles whose fetch is outstanding at one time
MaxInFlight == 2

----------------------------------------------------------------------------
(* Values *)

Some(v) == <<v>>
Absent == <<>>

\* x || 0 for an optional number
OrZero(opt) == IF opt = Absent THEN 0 ELSE opt[1]

Max(a, b) == IF a >= b THEN a ELSE b
Min(a, b) == IF a <= b THEN a ELSE b
Abs(a) == IF a >= 0 THEN a ELSE 0 - a

\* String.prototype.toLowerCase over the address alphabet
LowerChar(c) == IF c = "A" THEN "a" ELSE IF c = "B" THEN "b" ELSE c
toLowerCase(s) == [i \in 1..Len(s) |-> LowerChar(s[i])]

\* The Token interface
Tok(addr, name, price, mcap, vol, liq, tx, ch1h, ch24h, lu) ==
  [token_address |-> addr, token_name |-> name, price_sol |-> price,
   market_cap_sol |-> mcap, volume_sol |-> vol, liquidity_sol |-> liq,
   transaction_count |-> tx, price_1hr_change |-> ch1h,
   price_24hr_change |-> ch24h, last_updated |-> lu]

\* Records DexScreener can return (transformPairToToken): several pairs of one
\* base token give several records with one address.
DexPool ==
  { Tok(<<"a">>, "n1", 10, 50, 100000000, 7, 3, Some(1), Some(2), Some(5)),
    Tok(<<"a">>, "n2", 10, 50, 125000000, 9, 1, Some(1), Some(4), Some(6)),
    Tok(<<"a">>, "n3", 11, 55, 120000000, 7, 3, Absent, Some(0), Some(7)),
    Tok(<<"a">>, "n4", 12, 60, 100000001, 2, 8, Some(3), Absent, Absent),
    Tok(<<"a">>, "n5", 0, 0, 0, 0, 0, Absent, Absent, Some(5)),
    Tok(<<"A">>, "n6", 0, 0, 30000000, 4, 2, Some(1), Some(1), Some(8)),
    Tok(<<"b">>, "n7", 20, 90, 100000000, 5, 5, Some(2), Some(3), Some(5)),
    Tok(<<>>, "n8", 10, 50, 100000000, 1, 1, Some(1), Some(1), Some(5)) }

\* Records Jupiter can return (transformJupiterTokens): no price, liquidity,
\* transaction count or price change.
JupPool ==
  { Tok(<<"a">>, "j1", 0, 0, 25000000, 0, 0, Absent, Absent, Some(9)),
    Tok(<<"b">>, "j2", 0, 0, 0, 0, 0, Absent, Absent, Some(1)) }

TokenPool == DexPool \cup JupPool

SeqsUpTo(S, n) == UNION { [1..k -> S] : k \in 0..n }

\* An upstream answer: the normalized records of a 200 response, or a failure
\* (network error, timeout, 429, rate-limit rejection before the request).
Answer(l) == [ok |-> TRUE, tokens |-> l]
Failure == [ok |-> FALSE, tokens |-> <<>>]

\* A settled promise of a source client: fulfilled with a list, or rejected.
Fulfilled(v) == [status |-> "fulfilled", value |-> v]
Rejected == [status |-> "rejected", value |-> <<>>]

----------------------------------------------------------------------------
(* Source clients, provider cache missing *)

\* DexScreenerAPI.searchTokens: the catch block logs and rethrows
dexScreenerSearchTokens(upstream) ==
  IF upstream.ok THEN Fulfilled(upstream.tokens) ELSE Rejected

\* JupiterAPI.searchTokens: the catch block logs and returns []
jupiterSearchTokens(upstream) ==
  IF upstream.ok THEN Fulfilled(upstream.tokens) ELSE Fulfilled(<<>>)

----------------------------------------------------------------------------
(* AggregatorService *)

\* mergeTokenData with the liquidity of the base record kept (no Math.max)
mergeTokenData_baseLiquidity(token1, token2) ==
  IF token1 = Absent /\ token2 = Absent THEN Absent
  ELSE IF token1 = Absent THEN token2
  ELSE IF token2 = Absent THEN token1
  ELSE LET t1 == token1[1]
           t2 == token2[1]
           base == IF t1.price_sol > 0 THEN t1 ELSE t2
           supplement == IF t1.price_sol > 0 THEN t2 ELSE t1
       IN Some([base EXCEPT
            !.volume_sol = base.volume_sol + supplement.volume_sol,
            !.liquidity_sol = base.liquidity_sol,
            !.transaction_count =
                Max(base.transaction_count, supplement.transaction_count),
            !.last_updated =
                Some(Max(OrZero(base.last_updated), OrZero(supplement.last_updated)))])
\* mergeTokenData with the larger of the two volumes in place of their sum
mergeTokenData_maxVolume(token1, token2) ==
  IF token1 = Absent /\ token2 = Absent THEN Absent
  ELSE IF token1 = Absent THEN token2
  ELSE IF token2 = Absent THEN token1
  ELSE LET t1 == token1[1]
           t2 == token2[1]
           base == IF t1.price_sol > 0 THEN t1 ELSE t2
           supplement == IF t1.price_sol > 0 THEN t2 ELSE t1
       IN Some([base EXCEPT
            !.volume_sol = Max(base.volume_sol, supplement.volume_sol),
            !.liquidity_sol = Max(base.liquidity_sol, supplement.liquidity_sol),
            !.transaction_count =
                Max(base.transaction_count, supplement.transaction_count),
            !.last_updated =
                Some(Max(OrZero(base.last_updated), OrZero(supplement.last_updated)))])

mergeTokenData(token1, token2) ==
  IF token1 = Absent /\ token2 = Absent THEN Absent
  ELSE IF token1 = Absent THEN token2
  ELSE IF token2 = Absent THEN token1
  ELSE LET t1 == token1[1]
           t2 == token2[1]
           base == IF t1.price_sol > 0 THEN t1 ELSE t2
           supplement == IF t1.price_sol > 0 THEN t2 ELSE t1
       IN Some([base EXCEPT
            !.volume_sol = base.volume_sol + supplement.volume_sol,
            !.liquidity_sol = Max(base.liquidity_sol, supplement.liquidity_sol),
            !.transaction_count =
                Max(base.transaction_count, supplement.transaction_count),
            !.last_updated =
                Some(Max(OrZero(base.last_updated), OrZero(supplement.last_updated)))])

\* Map<string, Token> as a sequence of entries in insertion order
MapHas(m, k) == \E i \in 1..Len(m) : m[i].key = k
MapGet(m, k) == m[CHOOSE i \in 1..Len(m) : m[i].key = k].value
MapSet(m, k, v) ==
  IF MapHas(m, k)
  THEN [i \in 1..Len(m) |-> IF m[i].key = k THEN [key |-> k, value |-> v] ELSE m[i]]
  ELSE Append(m, [key |-> k, value |-> v])
MapValues(m) == [i \in 1..Len(m) |-> m[i].value]

RECURSIVE DedupLoop(_, _)
DedupLoop(tokens, tokenMap) ==
  IF tokens = <<>> THEN tokenMap
  ELSE LET token == Head(tokens)
           key == toLowerCase(token.token_address)
       IN DedupLoop(Tail(tokens),
            IF ~MapHas(tokenMap, key)
            THEN MapSet(tokenMap, key, token)
            ELSE MapSet(tokenMap, key,
                   mergeTokenData(Some(MapGet(tokenMap, key)), Some(token))[1]))

mergeAndDeduplicateTokens(tokens) == MapValues(DedupLoop(tokens, <<>>))

\* searchTokens with Promise.all in place of Promise.allSettled and a catch
\* that answers []: one rejection empties the result
searchTokens_allOrNothing(dex, jup) ==
  IF dex.status = "fulfilled" /\ jup.status = "fulfilled"
  THEN mergeAndDeduplicateTokens(dex.value \o jup.value)
  ELSE <<>>

\* searchTokens on a cache miss: Promise.allSettled over both sources
searchTokens(dex, jup) ==
  LET dexTokens == IF dex.status = "fulfilled" THEN dex.value ELSE <<>>
      jupTokens == IF jup.status = "fulfilled" THEN jup.value ELSE <<>>
  IN mergeAndDeduplicateTokens(dexTokens \o jupTokens)
\* applyFilters with <= in the volume test: a token at the minimum is dropped
applyFilters_strict(tokens, filters) ==
  SelectSeq(tokens, LAMBDA token :
    /\ ~(token.volume_sol <= filters.minVolume)
    /\ ~(filters.period = "1h" /\ token.price_1hr_change = Absent))

applyFilters(tokens, filters) ==
  SelectSeq(tokens, LAMBDA token :
    /\ ~(token.volume_sol < filters.minVolume)
    /\ ~(filters.period = "1h" /\ token.price_1hr_change = Absent))

SortKey(t, sortBy) ==
  CASE sortBy = "volume" -> t.volume_sol
    [] sortBy = "price_change" -> OrZero(t.price_24hr_change)
    [] sortBy = "market_cap" -> t.market_cap_sol
    [] sortBy = "liquidity" -> t.liquidity_sol
    [] OTHER -> t.volume_sol

\* the comparator handed to Array.prototype.sort
Compare(a, b, sortBy, order) ==
  IF order = "asc" THEN SortKey(a, sortBy) - SortKey(b, sortBy)
  ELSE SortKey(b, sortBy) - SortKey(a, sortBy)

\* Array.prototype.sort is stable: x goes behind every element it does not
\* strictly precede
RECURSIVE InsertSorted(_, _, _, _)
InsertSorted(sorted, x, sortBy, order) ==
  IF sorted = <<>> THEN <<x>>
  ELSE IF Compare(Head(sorted), x, sortBy, order) > 0
       THEN <<x>> \o sorted
       ELSE <<Head(sorted)>> \o InsertSorted(Tail(sorted), x, sortBy, order)

RECURSIVE SortLoop(_, _, _, _)
SortLoop(rest, sorted, sortBy, order) ==
  IF rest = <<>> THEN sorted
  ELSE SortLoop(Tail(rest), InsertSorted(sorted, Head(rest), sortBy, order),
                sortBy, order)

sortTokens(tokens, sortBy, order) == SortLoop(tokens, <<>>, sortBy, order)

\* decimal strings: parseInt(cursor, 10) and endIndex.toString()
Digits == <<"0", "1", "2", "3", "4", "5", "6", "7", "8", "9">>
DigitVal(c) == (CHOOSE i \in 1..10 : Digits[i] = c) - 1

RECURSIVE parseIntLoop(_, _)
parseIntLoop(s, acc) ==
  IF s = <<>> THEN acc ELSE parseIntLoop(Tail(s), acc * 10 + DigitVal(Head(s)))
parseInt(s) == parseIntLoop(s, 0)

RECURSIVE toString(_)
toString(n) ==
  IF n < 10 THEN <<Digits[n + 1]>> ELSE toString(n \div 10) \o <<Digits[(n % 10) + 1]>>

\* Array.prototype.slice(start, end) for 0 <= start
slice(s, start, end) == SubSeq(s, start + 1, Min(end, Len(s)))

\* destructuring defaults of getFilteredTokens
Default(opt, d) == IF opt = Absent THEN d ELSE opt[1]
\* getFilteredTokens with <= in the test for a next page
filterSortPaginate_inclusiveEnd(tokens, query) ==
  LET limit == Default(query.limit, 30)
      sortBy == Default(query.sortBy, "volume")
      order == Default(query.order, "desc")
      period == Default(query.period, "24h")
      minVolume == Default(query.minVolume, 0)
      filteredTokens ==
        sortTokens(applyFilters(tokens, [period |-> period, minVolume |-> minVolume]),
                   sortBy, order)
      startIndex == IF query.cursor # Absent /\ query.cursor[1] # <<>>
                    THEN parseInt(query.cursor[1]) ELSE 0
      endIndex == startIndex + limit
  IN [status |-> "ok",
      data |-> slice(filteredTokens, startIndex, endIndex),
      nextCursor |-> IF endIndex <= Len(filteredTokens)
                     THEN Some(toString(endIndex)) ELSE Absent,
      total |-> Len(filteredTokens),
      limit |-> limit]

\* getFilteredTokens after the base token set is resolved
filterSortPaginate(tokens, query) ==
  LET limit == Default(query.limit, 30)
      sortBy == Default(query.sortBy, "volume")
      order == Default(query.order, "desc")
      period == Default(query.period, "24h")
      minVolume == Default(query.minVolume, 0)
      filteredTokens ==
        sortTokens(applyFilters(tokens, [period |-> period, minVolume |-> minVolume]),
                   sortBy, order)
      startIndex == IF query.cursor # Absent /\ query.cursor[1] # <<>>
                    THEN parseInt(query.cursor[1]) ELSE 0
      endIndex == startIndex + limit
  IN [status |-> "ok",
      data |-> slice(filteredTokens, startIndex, endIndex),
      nextCursor |-> IF endIndex < Len(filteredTokens)
                     THEN Some(toString(endIndex)) ELSE Absent,
      total |-> Len(filteredTokens),
      limit |-> limit]

Thrown == [status |-> "error", data |-> <<>>, nextCursor |-> Absent,
           total |-> 0, limit |-> 0]

\* getFilteredTokens with a search string: the base set is searchTokens(search)
getFilteredTokensSearch(dex, jup, query) ==
  filterSortPaginate(searchTokens(dex, jup), query)

\* getFilteredTokens without one: the 'popular' set is DexScreener's answer to
\* 'SOL', taken as it comes; a rejection is rethrown
getFilteredTokensPopular(dex, query) ==
  IF dex.status = "fulfilled" THEN filterSortPaginate(dex.value, query) ELSE Thrown

----------------------------------------------------------------------------
(* One AggregatorService call on a cache miss.  A cache hit returns a list *)
(* that an earlier miss of the same operation produced and stored.         *)

QuerySet ==
  { [limit |-> Some(50), cursor |-> Absent, sortBy |-> Some("volume"),
     order |-> Some("desc"), period |-> Absent, minVolume |-> Absent],
    [limit |-> Absent, cursor |-> Absent, sortBy |-> Absent,
     order |-> Absent, period |-> Absent, minVolume |-> Absent],
    [limit |-> Some(1), cursor |-> Some(<<"1">>), sortBy |-> Some("liquidity"),
     order |-> Some("asc"), period |-> Some("1h"), minVolume |-> Some(30000000)],
    [limit |-> Some(2), cursor |-> Some(<<"0">>), sortBy |-> Some("price_change"),
     order |-> Some("desc"), period |-> Some("24h"), minVolume |-> Some(0)],
    [limit |-> Some(2), cursor |-> Absent, sortBy |-> Some("market_cap"),
     order |-> Some("asc"), period |-> Some("7d"), minVolume |-> Some(100000000)] }

CycleQuery ==
  [limit |-> Some(50), cursor |-> Absent, sortBy |-> Some("volume"),
   order |-> Some("desc"), period |-> Absent, minVolume |-> Absent]

DexAnswers == {Failure} \cup { Answer(l) : l \in SeqsUpTo(DexPool, MaxSrcLen) }
JupAnswers == {Failure} \cup { Answer(l) : l \in SeqsUpTo(JupPool, MaxSrcLen) }

AggSearch ==
  /\ aggOp = "idle"
  /\ aggOp' = "search"
  /\ aggOut' = searchTokens(dexScreenerSearchTokens(dexUpstream),
                            jupiterSearchTokens(jupUpstream))
  /\ UNCHANGED <<dexUpstream, jupUpstream, aggQuery, pairIn, wsVars, histVars, extVars>>

AggListSearch ==
  /\ aggOp = "idle"
  /\ \E query \in QuerySet :
       /\ aggQuery' = query
       /\ aggOut' = getFilteredTokensSearch(dexScreenerSearchTokens(dexUpstream),
                                            jupiterSearchTokens(jupUpstream), query)
  /\ aggOp' = "list_search"
  /\ UNCHANGED <<dexUpstream, jupUpstream, pairIn, wsVars, histVars, extVars>>

AggListPopular ==
  /\ aggOp = "idle"
  /\ \E query \in QuerySet :
       /\ aggQuery' = query
       /\ aggOut' = getFilteredTokensPopular(dexScreenerSearchTokens(dexUpstream), query)
  /\ aggOp' = "list_popular"
  /\ UNCHANGED <<dexUpstream, jupUpstream, pairIn, wsVars, histVars, extVars>>

\* DexScreenerAPI.getTokenByAddress: the first pair, null on failure or no pair
dexScreenerGetTokenByAddress(upstream) ==
  IF upstream.ok /\ upstream.tokens # <<>> THEN Some(Head(upstream.tokens)) ELSE Absent

\* JupiterAPI.getTokenInfo: the first hit of a search by address, null otherwise
jupiterGetTokenInfo(upstream) ==
  LET tokens == jupiterSearchTokens(upstream).value
  IN IF tokens # <<>> THEN Some(Head(tokens)) ELSE Absent

\* getTokenByAddress: both sources answer for one address, the answers are merged
AggGetTokenByAddress ==
  /\ aggOp = "idle"
  /\ pairIn' = <<dexScreenerGetTokenByAddress(dexUpstream),
                 jupiterGetTokenInfo(jupUpstream)>>
  /\ aggOut' = mergeTokenData(dexScreenerGetTokenByAddress(dexUpstream),
                              jupiterGetTokenInfo(jupUpstream))
  /\ aggOp' = "by_address"
  /\ UNCHANGED <<dexUpstream, jupUpstream, aggQuery, wsVars, histVars, extVars>>

\* no request is being served and no socket is known
FrontIdle ==
  /\ walk = <<>>
  /\ ctl = <<>>
  /\ tokenLast = <<>>
  /\ source = <<>>
  /\ sockets = <<>>
  /\ eventLoop = <<>>

\* the limiter as it is while another component is under study
LimiterIdle ==
  /\ maxRequests = 0
  /\ windowMs = 0
  /\ requestCounts = <<>>
  /\ now = 0
  /\ waiter = <<>>
  /\ rlLast = <<>>
  /\ admitLog = <<>>
  /\ windowLog = <<>>
  /\ purge = <<>>

\* the cache as it is while another component is under study
CacheIdle ==
  /\ isConnected = FALSE
  /\ redis = <<>>
  /\ scan = Absent
  /\ cacheLast = <<>>
  /\ lastSet = <<>>
  /\ searchCall = Absent
  /\ searchLast = <<>>

WsIdle ==
  /\ previousTokenData = <<>>
  /\ isRunning = FALSE
  /\ updateInterval = FALSE
  /\ inFlight = 0
  /\ snapBefore = <<>>
  /\ lastList = Absent
  /\ lastEvents = <<>>
  /\ repeated = FALSE
  /\ newCount = <<>>

InitAgg ==
  /\ dexUpstream \in DexAnswers
  /\ jupUpstream \in JupAnswers
  /\ aggQuery = CycleQuery
  /\ pairIn = <<Absent, Absent>>
  /\ aggOp = "idle"
  /\ aggOut = <<>>
  /\ WsIdle
  /\ LimiterIdle
  /\ CacheIdle
  /\ FrontIdle

NextAgg == AggSearch \/ AggListSearch \/ AggListPopular \/ AggGetTokenByAddress

SpecAgg == InitAgg /\ [][NextAgg]_vars

----------------------------------------------------------------------------
(* WebSocketService: the polling cycle *)

\* Tiny thresholds for floating point: 0.000000001 SOL and 0.000001 SOL
PriceThreshold == 1
VolumeThreshold == 1

\* previousTokenData: Map<string, Token> as a function on the keys it holds
Has(map, key) == key \in DOMAIN map
Put(map, key, value) ==
  [k \in DOMAIN map \cup {key} |-> IF k = key THEN value ELSE map[k]]

\* a pass that does not record the token it has just seen
storeSnapshot_forget(map, currentToken) == map

\* this.previousTokenData.set(address, { ...currentToken })
storeSnapshot(map, currentToken) == Put(map, currentToken.token_address, currentToken)

\* ((current - previous) / previous) * 100, kept exact as the pair it is
\* computed from: the percentage is 100 * diff / of, and is Infinity,
\* -Infinity or NaN when of = 0
Percent(current, previous) == [diff |-> current - previous, of |-> previous]

\* volumeChange >= 20 in place of > 20
exceedsTwenty_orEqual(pct) ==
  IF pct.of = 0 THEN pct.diff > 0 ELSE 5 * pct.diff >= pct.of

\* volumeChange > 20, with the IEEE results of a division by zero
exceedsTwenty(pct) ==
  IF pct.of = 0 THEN pct.diff > 0 ELSE 5 * pct.diff > pct.of

\* priceDiff >= threshold in place of priceDiff > threshold
hasMinimalPriceChange_orEqual(currentToken, previous) ==
  Abs(currentToken.price_sol - previous.price_sol) >= PriceThreshold

\* Math.abs(current.price_sol - previous.price_sol) > 0.000000001
hasMinimalPriceChange(currentToken, previous) ==
  Abs(currentToken.price_sol - previous.price_sol) > PriceThreshold

\* Math.abs(current.volume_sol - previous.volume_sol) > 0.000001
hasMinimalVolumeChange(currentToken, previous) ==
  Abs(currentToken.volume_sol - previous.volume_sol) > VolumeThreshold

PriceUpdateEvent(currentToken, previous) ==
  [token_address |-> currentToken.token_address,
   old_price |-> previous.price_sol,
   new_price |-> currentToken.price_sol,
   change_percent |-> Percent(currentToken.price_sol, previous.price_sol)]

VolumeSpike(currentToken, previous) ==
  [token_address |-> currentToken.token_address,
   old_volume |-> previous.volume_sol,
   new_volume |-> currentToken.volume_sol,
   spike_percent |-> Percent(currentToken.volume_sol, previous.volume_sol)]

\* emitEvent: one push to every client (the timestamp is not modelled)
emitEvent(type, data) == [type |-> type, data |-> data]

Includes(seq, x) == \E i \in 1..Len(seq) : seq[i] = x

\* the state of one pass over currentTokens; updates holds positions of the
\* list, since updates.includes compares object identity
PassStart(map) ==
  [previousTokenData |-> map, updates |-> <<>>, priceUpdates |-> <<>>,
   volumeSpikes |-> <<>>, emitted |-> <<>>, hasChanges |-> FALSE]

\* the body of the for loop without the updates.includes test
diffToken_pushTwice(st, i, currentToken, previous) ==
  LET st1 == IF hasMinimalPriceChange(currentToken, previous)
             THEN [st EXCEPT
                    !.priceUpdates = Append(@, PriceUpdateEvent(currentToken, previous)),
                    !.updates = Append(@, i),
                    !.hasChanges = TRUE]
             ELSE st
      spike == exceedsTwenty(Percent(currentToken.volume_sol, previous.volume_sol))
      st2 == IF hasMinimalVolumeChange(currentToken, previous)
             THEN [st1 EXCEPT
                    !.volumeSpikes = IF spike
                                     THEN Append(@, VolumeSpike(currentToken, previous))
                                     ELSE @,
                    !.hasChanges = IF spike THEN TRUE ELSE @,
                    !.updates = Append(@, i)]
             ELSE st1
  IN [st2 EXCEPT !.previousTokenData = storeSnapshot(@, currentToken)]

\* the body of the for loop for a token that has a snapshot entry
diffToken(st, i, currentToken, previous) ==
  LET st1 == IF hasMinimalPriceChange(currentToken, previous)
             THEN [st EXCEPT
                    !.priceUpdates = Append(@, PriceUpdateEvent(currentToken, previous)),
                    !.updates = Append(@, i),
                    !.hasChanges = TRUE]
             ELSE st
      spike == exceedsTwenty(Percent(currentToken.volume_sol, previous.volume_sol))
      st2 == IF hasMinimalVolumeChange(currentToken, previous)
             THEN [st1 EXCEPT
                    !.volumeSpikes = IF spike
                                     THEN Append(@, VolumeSpike(currentToken, previous))
                                     ELSE @,
                    !.hasChanges = IF spike THEN TRUE ELSE @,
                    !.updates = IF Includes(@, i) THEN @ ELSE Append(@, i)]
             ELSE st1
  IN [st2 EXCEPT !.previousTokenData = storeSnapshot(@, currentToken)]

RECURSIVE DiffLoop(_, _, _)
DiffLoop(currentTokens, i, st) ==
  IF i > Len(currentTokens) THEN st
  ELSE LET currentToken == currentTokens[i]
       IN IF currentToken.token_address = <<>>
          THEN DiffLoop(currentTokens, i + 1, st)
          ELSE IF ~Has(st.previousTokenData, currentToken.token_address)
          THEN DiffLoop(currentTokens, i + 1,
                 [st EXCEPT
                   !.updates = Append(@, i),
                   !.emitted = Append(@, emitEvent("new_token", currentToken)),
                   !.hasChanges = TRUE,
                   !.previousTokenData = storeSnapshot(@, currentToken)])
          ELSE DiffLoop(currentTokens, i + 1,
                 diffToken(st, i, currentToken,
                           st.previousTokenData[currentToken.token_address]))

\* one push per item in place of one push of the array
emitBatch_perItem(type, items) ==
  [i \in 1..Len(items) |-> emitEvent(type, <<items[i]>>)]

\* if (items.length > 0) this.emitEvent(type, items)
emitBatch(type, items) ==
  IF Len(items) > 0 THEN <<emitEvent(type, items)>> ELSE <<>>

\* a pass that keeps only the entries of the tokens it has fetched
DiffPass_evicting(map, currentTokens) ==
  LET st == DiffLoop(currentTokens, 1, PassStart(map))
      updates == [j \in 1..Len(st.updates) |-> currentTokens[st.updates[j]]]
      fetched == { currentTokens[j].token_address : j \in 1..Len(currentTokens) }
  IN [previousTokenData |->
        [a \in DOMAIN st.previousTokenData \cap fetched |-> st.previousTokenData[a]],
      events |-> st.emitted
                   \o emitBatch("tokens_updated", updates)
                   \o emitBatch("price_update", st.priceUpdates)
                   \o emitBatch("volume_spike", st.volumeSpikes)]

\* fetchAndBroadcastUpdates once the fetch has returned currentTokens: the
\* snapshot map it leaves and the events it pushes, in order
DiffPass(map, currentTokens) ==
  LET st == DiffLoop(currentTokens, 1, PassStart(map))
      updates == [j \in 1..Len(st.updates) |-> currentTokens[st.updates[j]]]
  IN [previousTokenData |-> st.previousTokenData,
      events |-> st.emitted
                   \o emitBatch("tokens_updated", updates)
                   \o emitBatch("price_update", st.priceUpdates)
                   \o emitBatch("volume_spike", st.volumeSpikes)]

\* what DexScreener answers to the cycle's 'SOL' search
CyclePool == { t \in DexPool : t.token_address # <<"A">> }
CycleAnswers == {Failure} \cup { Answer(l) : l \in SeqsUpTo(CyclePool, MaxSrcLen) }

\* what the cycle's getFilteredTokens({limit: 50, sortBy: 'volume', order:
\* 'desc'}) can return or throw: the 'popular' path over those answers
CycleFetchResults ==
  { getFilteredTokensPopular(dexScreenerSearchTokens(upstream), CycleQuery) :
      upstream \in CycleAnswers }

AddrSet == { t.token_address : t \in CyclePool }

CountType(events, type) ==
  Cardinality({ i \in 1..Len(events) : events[i].type = type })

NewTokenCount(events, addr) ==
  Cardinality({ i \in 1..Len(events) :
                  events[i].type = "new_token" /\ events[i].data.token_address = addr })

\* The constructor: startRealtimeUpdates sets isRunning, calls the first
\* fetchAndBroadcastUpdates (which runs up to its await) and arms the timer.
\* this.updateCount, a counter that is only logged by stop(), is left out.
Init ==
  /\ previousTokenData = <<>>
  /\ isRunning = TRUE
  /\ updateInterval = TRUE
  /\ inFlight = 1
  /\ snapBefore = <<>>
  /\ lastList = Absent
  /\ lastEvents = <<>>
  /\ repeated = FALSE
  /\ newCount = [a \in AddrSet |-> 0]
  /\ dexUpstream = Failure
  /\ jupUpstream = Failure
  /\ aggQuery = CycleQuery
  /\ pairIn = <<Absent, Absent>>
  /\ aggOp = "idle"
  /\ aggOut = <<>>
  /\ LimiterIdle
  /\ CacheIdle
  /\ FrontIdle

\* The setInterval callback fires: setInterval does not wait for the promise
\* of an earlier callback, nor for the first call made by the constructor.
TimerTick ==
  /\ updateInterval
  /\ isRunning
  /\ inFlight < MaxInFlight
  /\ inFlight' = inFlight + 1
  /\ UNCHANGED <<previousTokenData, isRunning, updateInterval, aggVars, histVars, extVars>>

\* The aggregate fetch of a cycle returns a list: the rest of
\* fetchAndBroadcastUpdates runs without another await.
CycleDiffPass ==
  /\ inFlight > 0
  /\ \E tokens \in CycleFetchResults :
       /\ tokens.status = "ok"
       /\ \E pass \in {DiffPass(previousTokenData, tokens.data)} :
            /\ previousTokenData' = pass.previousTokenData
            /\ snapBefore' = previousTokenData
            /\ lastList' = Some(tokens.data)
            /\ lastEvents' = pass.events
            /\ repeated' = (lastList = Some(tokens.data))
            /\ newCount' = [a \in AddrSet |->
                              newCount[a] + NewTokenCount(pass.events, a)]
  /\ inFlight' = inFlight - 1
  /\ UNCHANGED <<isRunning, updateInterval, aggVars, extVars>>

\* a catch block that also clears the timer
CycleFetchFails_clearsTimer ==
  /\ inFlight > 0
  /\ \E tokens \in CycleFetchResults : tokens.status = "error"
  /\ inFlight' = inFlight - 1
  /\ snapBefore' = previousTokenData
  /\ lastList' = Absent
  /\ lastEvents' = <<>>
  /\ repeated' = FALSE
  /\ updateInterval' = FALSE
  /\ UNCHANGED <<previousTokenData, isRunning, newCount, aggVars, extVars>>

\* The aggregate fetch of a cycle throws: the catch block logs.
CycleFetchFails ==
  /\ inFlight > 0
  /\ \E tokens \in CycleFetchResults : tokens.status = "error"
  /\ inFlight' = inFlight - 1
  /\ snapBefore' = previousTokenData
  /\ lastList' = Absent
  /\ lastEvents' = <<>>
  /\ repeated' = FALSE
  /\ UNCHANGED <<previousTokenData, isRunning, updateInterval, newCount, aggVars, extVars>>
\* stop() that also empties the snapshot map
stop_clearsSnapshot ==
  /\ isRunning
  /\ isRunning' = FALSE
  /\ updateInterval' = FALSE
  /\ previousTokenData' = <<>>
  /\ UNCHANGED <<inFlight, aggVars, histVars, extVars>>

\* stop(): clears the flag and the timer; a fetch in flight is left to finish
stop ==
  /\ isRunning
  /\ isRunning' = FALSE
  /\ updateInterval' = FALSE
  /\ UNCHANGED <<previousTokenData, inFlight, aggVars, histVars, extVars>>

Next == TimerTick \/ CycleDiffPass \/ CycleFetchFails \/ stop

Spec == Init /\ [][Next]_vars

----------------------------------------------------------------------------
(* RateLimiter: fixed-window admission per identifier.  Time is counted in *)
(* units of the base delay of waitForSlot (1000 ms).                       *)

\* largest maxRequests a limiter is constructed with
MaxRequests == 2
\* the last instant of the clock
MaxTime == 3
\* largest maxRetries handed to waitForSlot
MaxRetries == 2

\* window lengths a limiter is constructed with: none, and two base delays
WindowSet == {0, 2}

\* the identifiers the source clients use
Identifiers == {"search", "token"}

RateLimitInfo(requests, windowStart, blocked) ==
  [requests |-> requests, windowStart |-> windowStart, blocked |-> blocked]

\* canMakeRequest with the limit test written > in place of >=
canMakeRequest_offByOne(counts, identifier, t) ==
  LET info == counts[identifier]
      fresh == [counts EXCEPT ![identifier] = Some(RateLimitInfo(1, t, FALSE))]
  IN IF info = Absent THEN [result |-> TRUE, requestCounts |-> fresh]
     ELSE IF t - info[1].windowStart >= windowMs
       THEN [result |-> TRUE, requestCounts |-> fresh]
     ELSE IF info[1].requests > maxRequests
       THEN [result |-> FALSE,
             requestCounts |-> [counts EXCEPT ![identifier][1].blocked = TRUE]]
     ELSE [result |-> TRUE,
           requestCounts |-> [counts EXCEPT ![identifier][1].requests = @ + 1]]

\* canMakeRequest(identifier) at instant t: what it returns and the map it leaves
canMakeRequest(counts, identifier, t) ==
  LET info == counts[identifier]
      fresh == [counts EXCEPT ![identifier] = Some(RateLimitInfo(1, t, FALSE))]
  IN IF info = Absent THEN [result |-> TRUE, requestCounts |-> fresh]
     ELSE IF t - info[1].windowStart >= windowMs
       THEN [result |-> TRUE, requestCounts |-> fresh]
     ELSE IF info[1].requests >= maxRequests
       THEN [result |-> FALSE,
             requestCounts |-> [counts EXCEPT ![identifier][1].blocked = TRUE]]
     ELSE [result |-> TRUE,
           requestCounts |-> [counts EXCEPT ![identifier][1].requests = @ + 1]]

\* getRemainingRequests without the test for an expired window
getRemainingRequests_ignoresExpiry(counts, identifier, t) ==
  LET info == counts[identifier]
  IN IF info = Absent THEN maxRequests
     ELSE Max(0, maxRequests - info[1].requests)

getRemainingRequests(counts, identifier, t) ==
  LET info == counts[identifier]
  IN IF info = Absent THEN maxRequests
     ELSE IF t - info[1].windowStart >= windowMs THEN maxRequests
     ELSE Max(0, maxRequests - info[1].requests)

getResetTime(counts, identifier, t) ==
  LET info == counts[identifier]
  IN IF info = Absent THEN t ELSE info[1].windowStart + windowMs

\* reset written as resetAll
reset_clearsAll(counts, identifier) == [i \in Identifiers |-> Absent]

reset(counts, identifier) == [counts EXCEPT ![identifier] = Absent]

resetAll(counts) == [i \in Identifiers |-> Absent]

\* cleanup that deletes an entry as soon as its window is over
cleanup_oneWindow(counts, t) ==
  [i \in Identifiers |->
     IF counts[i] # Absent /\ t - counts[i][1].windowStart >= windowMs
     THEN Absent ELSE counts[i]]

\* cleanup that deletes every entry
cleanup_everyEntry(counts, t) == [i \in Identifiers |-> Absent]

\* cleanup: entries whose window began two window lengths ago are deleted
cleanup(counts, t) ==
  [i \in Identifiers |->
     IF counts[i] # Absent /\ t - counts[i][1].windowStart >= windowMs * 2
     THEN Absent ELSE counts[i]]

baseDelay == 1

RECURSIVE pow(_, _)
pow(b, e) == IF e = 0 THEN 1 ELSE b * pow(b, e - 1)

\* the loop test of waitForSlot written <= in place of <
waitContinues_inclusive(retries, maxRetries) == retries <= maxRetries

\* while (retries < maxRetries)
waitContinues(retries, maxRetries) == retries < maxRetries

\* the sleeps of a call whose every attempt is rejected, added up (no jitter)
TotalBackoff(maxRetries) == baseDelay * (pow(2, maxRetries) - 1)

\* the waitForSlot call: where it is (idle before the call, sleeping at its
\* await, done once returned), its arguments and locals, and for each attempt
\* made what canMakeRequest answered, when, and the delay computed after it
NoWaiter ==
  [pc |-> "idle", identifier |-> "search", maxRetries |-> 0, retries |-> 0,
   outcomes |-> <<>>, times |-> <<>>, delays |-> <<>>, wakeAt |-> 0,
   result |-> FALSE]

\* waitForSlot from the loop test to its next await or return: the test, the
\* admission attempt, and either a return or the start of the backoff sleep.
\* The jitter (under one base delay) only lengthens the sleep.
waitLoop(w, counts, t) ==
  IF waitContinues(w.retries, w.maxRetries)
  THEN LET r == canMakeRequest(counts, w.identifier, t)
           delay == baseDelay * pow(2, w.retries)
       IN IF r.result
          THEN [waiter |-> [w EXCEPT !.pc = "done", !.result = TRUE,
                                     !.outcomes = Append(@, TRUE),
                                     !.times = Append(@, t)],
                requestCounts |-> r.requestCounts, attempted |-> TRUE,
                admitted |-> TRUE]
          ELSE [waiter |-> [w EXCEPT !.pc = "sleeping", !.wakeAt = t + delay,
                                     !.outcomes = Append(@, FALSE),
                                     !.times = Append(@, t),
                                     !.delays = Append(@, delay)],
                requestCounts |-> r.requestCounts, attempted |-> TRUE,
                admitted |-> FALSE]
  ELSE [waiter |-> [w EXCEPT !.pc = "done", !.result = FALSE],
        requestCounts |-> counts, attempted |-> FALSE, admitted |-> FALSE]

Last(op, identifier, result, value) ==
  [op |-> op, identifier |-> identifier, result |-> result, value |-> value]

\* what the history keeps at instant t: an admission or a window opening at
\* instant e shares a window with a later admission only while t < e + windowMs
Recent(e, t) == t < e + windowMs

\* the history of admissions: an admitted request is logged at its instant,
\* and so is the window it opened when it left the count at 1
LogAdmission(identifier, admitted, counts) ==
  /\ admitLog' = IF admitted /\ Recent(now, now)
                 THEN [admitLog EXCEPT ![identifier] = Append(@, now)]
                 ELSE admitLog
  /\ windowLog' = IF admitted /\ counts[identifier][1].requests = 1
                               /\ Recent(now, now)
                  THEN [windowLog EXCEPT ![identifier] = @ \cup {now}]
                  ELSE windowLog

InitLimiter ==
  /\ maxRequests \in 0..MaxRequests
  /\ windowMs \in WindowSet
  /\ requestCounts = [i \in Identifiers |-> Absent]
  /\ now = 0
  /\ waiter = NoWaiter
  /\ rlLast = Last("new", "search", FALSE, 0)
  /\ admitLog = [i \in Identifiers |-> <<>>]
  /\ windowLog = [i \in Identifiers |-> {}]
  /\ purge = <<>>
  /\ dexUpstream = Failure
  /\ jupUpstream = Failure
  /\ aggQuery = CycleQuery
  /\ pairIn = <<Absent, Absent>>
  /\ aggOp = "idle"
  /\ aggOut = <<>>
  /\ WsIdle
  /\ CacheIdle
  /\ FrontIdle

RlFrame ==
  UNCHANGED <<maxRequests, windowMs, now, purge, aggVars, wsVars, histVars,
              cacheVars, searchVars, frontVars>>

CanMakeRequest ==
  \E identifier \in Identifiers :
    /\ \E r \in {canMakeRequest(requestCounts, identifier, now)} :
         /\ requestCounts' = r.requestCounts
         /\ rlLast' = Last("canMakeRequest", identifier, r.result, 0)
         /\ LogAdmission(identifier, r.result, r.requestCounts)
    /\ UNCHANGED waiter
    /\ RlFrame

GetRemainingRequests ==
  \E identifier \in Identifiers :
    /\ rlLast' = Last("getRemainingRequests", identifier, FALSE,
                      getRemainingRequests(requestCounts, identifier, now))
    /\ UNCHANGED <<requestCounts, waiter, admitLog, windowLog>>
    /\ RlFrame

\* reset(identifier): the identifier is forgotten, and with it its history
Reset ==
  \E identifier \in Identifiers :
    /\ requestCounts' = reset(requestCounts, identifier)
    /\ rlLast' = Last("reset", identifier, FALSE, 0)
    /\ admitLog' = [i \in Identifiers |->
                      IF requestCounts'[i] = Absent THEN <<>> ELSE admitLog[i]]
    /\ windowLog' = [i \in Identifiers |->
                       IF requestCounts'[i] = Absent THEN {} ELSE windowLog[i]]
    /\ UNCHANGED waiter
    /\ RlFrame

ResetAll ==
  /\ requestCounts' = resetAll(requestCounts)
  /\ rlLast' = Last("resetAll", "search", FALSE, 0)
  /\ admitLog' = [i \in Identifiers |-> <<>>]
  /\ windowLog' = [i \in Identifiers |-> {}]
  /\ UNCHANGED waiter
  /\ RlFrame

\* the setInterval callback of the constructor
Cleanup ==
  /\ requestCounts' = cleanup(requestCounts, now)
  /\ rlLast' = Last("cleanup", "search", FALSE, 0)
  /\ UNCHANGED <<waiter, admitLog, windowLog>>
  /\ RlFrame

\* waitForSlot(identifier, maxRetries) is called: it runs to its first await
\* or return.  A call is begun while the clock can still cover its sleeps.
WaitForSlotCall ==
  \E identifier \in Identifiers, n \in 0..MaxRetries :
    /\ waiter.pc = "idle"
    /\ now + TotalBackoff(n) <= MaxTime
    /\ \E step \in {waitLoop([NoWaiter EXCEPT !.identifier = identifier,
                                              !.maxRetries = n],
                             requestCounts, now)} :
         /\ waiter' = step.waiter
         /\ requestCounts' = step.requestCounts
         /\ rlLast' = Last(IF step.attempted THEN "waitForSlot:attempt"
                                              ELSE "waitForSlot:return",
                           identifier, step.admitted, 0)
         /\ LogAdmission(identifier, step.admitted, step.requestCounts)
    /\ RlFrame

\* the sleep of waitForSlot is over: retries++, then on from the loop test
WaitForSlotWake ==
  /\ waiter.pc = "sleeping"
  /\ now >= waiter.wakeAt
  /\ \E step \in {waitLoop([waiter EXCEPT !.retries = @ + 1],
                           requestCounts, now)} :
       /\ waiter' = step.waiter
       /\ requestCounts' = step.requestCounts
       /\ rlLast' = Last(IF step.attempted THEN "waitForSlot:attempt"
                                            ELSE "waitForSlot:return",
                         waiter.identifier, step.admitted, 0)
       /\ LogAdmission(waiter.identifier, step.admitted, step.requestCounts)
  /\ RlFrame

\* Date.now() moves on; a sleep that is due ends before the clock passes it
Tick ==
  /\ now < MaxTime
  /\ ~(waiter.pc = "sleeping" /\ now >= waiter.wakeAt)
  /\ now' = now + 1
  /\ rlLast' = Last("tick", "search", FALSE, 0)
  /\ admitLog' = [i \in Identifiers |->
                    SelectSeq(admitLog[i], LAMBDA e : Recent(e, now'))]
  /\ windowLog' = [i \in Identifiers |->
                     { e \in windowLog[i] : Recent(e, now') }]
  /\ UNCHANGED <<maxRequests, windowMs, requestCounts, waiter, purge,
                 aggVars, wsVars, histVars, cacheVars, searchVars, frontVars>>

\* the synchronous calls of the limiter and its cleanup timer
NextLimiter ==
  \/ CanMakeRequest \/ GetRemainingRequests \/ Reset
  \/ ResetAll \/ Cleanup \/ Tick

SpecLimiter == InitLimiter /\ [][NextLimiter]_vars

\* a waitForSlot call among direct calls of canMakeRequest and reset
NextWait ==
  \/ WaitForSlotCall \/ WaitForSlotWake \/ CanMakeRequest \/ Reset \/ Tick

\* timers fire and the clock moves: the sleep of waitForSlot ends
SpecWait ==
  InitLimiter /\ [][NextWait]_vars /\ WF_vars(Tick) /\ WF_vars(WaitForSlotWake)

----------------------------------------------------------------------------
(* CacheService over its Redis client.  Keys and patterns are sequences of *)
(* characters; an entry of the store holds the serialized value and the    *)
(* seconds it still has to live.                                           *)

\* longest time to live, in seconds, handed to set
MaxTtl == 2

\* keys of the callers outside the aggregator
GenericKeys == { <<"q", ":", "1">>, <<"q", ":", "2">>, <<"x", ":", "1">> }

\* the search strings of the aggregator
Queries == { <<"a">>, <<"b">> }

CACHE_PREFIX == <<"aggregated:">>

\* `${this.CACHE_PREFIX}search:${query}`
SearchKey(query) == CACHE_PREFIX \o <<"search:">> \o query

\* the addresses asked for by getTokenByAddress
Addresses == { <<"a">>, <<"b">> }

\* `${this.CACHE_PREFIX}token:${address}`
TokenKey(address) == CACHE_PREFIX \o <<"token:">> \o address

\* `${this.CACHE_PREFIX}popular`
PopularKey == CACHE_PREFIX \o <<"popular">>

\* the keys of the aggregator
AggregatorKeys ==
  { SearchKey(q) : q \in Queries } \cup { TokenKey(a) : a \in Addresses }
    \cup { PopularKey }

\* the source clients and the prefix of each one's cache keys
Clients == {"dexscreener", "jupiter"}
ClientPrefix(client) ==
  IF client = "dexscreener" THEN <<"dexscreener:">> ELSE <<"jupiter:">>

\* `${this.CACHE_PREFIX}search:${query}` of a source client
ProviderKey(client, query) == ClientPrefix(client) \o <<"search:">> \o query

ProviderKeys == { ProviderKey(c, q) : c \in Clients, q \in Queries }

CacheKeys == GenericKeys \cup AggregatorKeys \cup ProviderKeys

\* patterns handed to deletePattern: two keys match, one does, none does
Patterns == { <<"q", ":", "*">>, <<"x", ":", "?">>, <<"z", "*">> }

\* values handed to set: token lists
CacheValues ==
  { <<Tok(<<"a">>, "n1", 10, 50, 100000000, 7, 3, Some(1), Some(2), Some(5))>>,
    <<Tok(<<"b">>, "j2", 0, 0, 0, 0, 0, Absent, Absent, Some(1))>> }

\* the optional members of Token
OptionalFields == {"price_1hr_change", "price_24hr_change", "last_updated"}

TokenFields ==
  {"token_address", "token_name", "price_sol", "market_cap_sol", "volume_sol",
   "liquidity_sol", "transaction_count"} \cup OptionalFields

\* JSON.stringify of a token list: an array of objects; a member that is
\* undefined is left out of its object
JSONstringify(value) ==
  [json |->
     [i \in 1..Len(value) |->
        [f \in { g \in TokenFields :
                   ~(g \in OptionalFields /\ value[i][g] = Absent) } |->
           IF f \in OptionalFields THEN value[i][f][1] ELSE value[i][f]]]]

\* JSON.parse: a member that the object lacks reads as undefined
JSONparse(serialized) ==
  [i \in 1..Len(serialized.json) |->
     [f \in TokenFields |->
        IF f \in DOMAIN serialized.json[i]
        THEN IF f \in OptionalFields THEN Some(serialized.json[i][f])
                                     ELSE serialized.json[i][f]
        ELSE Absent]]

\* Redis glob matching: * is any run of characters, ? any one character
RECURSIVE GlobMatch(_, _)
GlobMatch(pattern, key) ==
  IF pattern = <<>> THEN key = <<>>
  ELSE IF Head(pattern) = "*"
    THEN \/ GlobMatch(Tail(pattern), key)
         \/ key # <<>> /\ GlobMatch(pattern, Tail(key))
  ELSE /\ key # <<>>
       /\ Head(pattern) = "?" \/ Head(pattern) = Head(key)
       /\ GlobMatch(Tail(pattern), Tail(key))

Entry(serialized, ttl) == [value |-> serialized, ttl |-> ttl]

\* what a call returned and what it left: the store, whether the client was
\* asked, and the returned boolean, value or number
Outcome(store, contacted, ok, value, count) ==
  [redis |-> store, contacted |-> contacted, ok |-> ok, value |-> value,
   count |-> count]

\* get(key): null when not connected, when the client raises, or on no value
cacheGet(store, connected, fails, key) ==
  IF ~connected THEN Outcome(store, FALSE, FALSE, Absent, 0)
  ELSE IF fails THEN Outcome(store, TRUE, FALSE, Absent, 0)
  ELSE IF store[key] = Absent THEN Outcome(store, TRUE, FALSE, Absent, 0)
  ELSE Outcome(store, TRUE, TRUE, Some(JSONparse(store[key][1].value)), 0)

\* set(key, value, ttl): SETEX of the serialized value
cacheSet(store, connected, fails, key, value, ttl) ==
  IF ~connected THEN Outcome(store, FALSE, FALSE, Absent, 0)
  ELSE IF fails THEN Outcome(store, TRUE, FALSE, Absent, 0)
  ELSE Outcome([store EXCEPT ![key] = Some(Entry(JSONstringify(value), ttl))],
               TRUE, TRUE, Absent, 0)

\* delete without the isConnected test
cacheDelete_unguarded(store, connected, fails, key) ==
  IF fails THEN Outcome(store, TRUE, FALSE, Absent, 0)
  ELSE Outcome([store EXCEPT ![key] = Absent], TRUE, TRUE, Absent, 0)

\* delete(key): DEL; true whether or not the key was there
cacheDelete(store, connected, fails, key) ==
  IF ~connected THEN Outcome(store, FALSE, FALSE, Absent, 0)
  ELSE IF fails THEN Outcome(store, TRUE, FALSE, Absent, 0)
  ELSE Outcome([store EXCEPT ![key] = Absent], TRUE, TRUE, Absent, 0)

\* exists(key): EXISTS answered 1
cacheExists(store, connected, fails, key) ==
  IF ~connected THEN Outcome(store, FALSE, FALSE, Absent, 0)
  ELSE IF fails THEN Outcome(store, TRUE, FALSE, Absent, 0)
  ELSE Outcome(store, TRUE, store[key] # Absent, Absent, 0)

\* ttl(key): TTL, which answers -2 for a key that is not there
cacheTtl(store, connected, fails, key) ==
  IF ~connected THEN Outcome(store, FALSE, FALSE, Absent, 0 - 1)
  ELSE IF fails THEN Outcome(store, TRUE, FALSE, Absent, 0 - 1)
  ELSE Outcome(store, TRUE, TRUE, Absent,
               IF store[key] = Absent THEN 0 - 2 ELSE store[key][1].ttl)

\* KEYS pattern: the keys in the store that match
clientKeys(store, pattern) ==
  { k \in CacheKeys : store[k] # Absent /\ GlobMatch(pattern, k) }

\* DEL key...: the keys are removed
clientDel(store, keys) ==
  [k \in CacheKeys |-> IF k \in keys THEN Absent ELSE store[k]]

\* a store that never expires a key
expire_never(store) == store

\* one second passes in the store: entries out of time are gone
expire(store) ==
  [k \in CacheKeys |->
     IF store[k] = Absent \/ store[k][1].ttl = 1 THEN Absent
     ELSE Some([store[k][1] EXCEPT !.ttl = @ - 1])]

\* deletePattern up to its first await: the isConnected test and KEYS.  It
\* returns 0 at once when not connected, when KEYS raises and when no key
\* matches; otherwise it goes on to DEL with the keys found.
deletePatternKeys(store, connected, fails, pattern) ==
  IF ~connected
  THEN [returned |-> TRUE, keys |-> {}, out |-> Outcome(store, FALSE, FALSE, Absent, 0)]
  ELSE IF fails
  THEN [returned |-> TRUE, keys |-> {}, out |-> Outcome(store, TRUE, FALSE, Absent, 0)]
  ELSE IF clientKeys(store, pattern) = {}
  THEN [returned |-> TRUE, keys |-> {}, out |-> Outcome(store, TRUE, TRUE, Absent, 0)]
  ELSE [returned |-> FALSE, keys |-> clientKeys(store, pattern),
        out |-> Outcome(store, TRUE, TRUE, Absent, 0)]

\* deletePattern from DEL on: keys.length is returned, 0 when DEL raises
deletePatternDel(store, fails, keys) ==
  IF fails THEN Outcome(store, TRUE, FALSE, Absent, 0)
  ELSE Outcome(clientDel(store, keys), TRUE, TRUE, Absent, Cardinality(keys))

\* the last call made on the cache: its name and key (or pattern), whether
\* isConnected held when it was made, whether the client raised, and what
\* came back
Called(op, key, connected, fails, out) ==
  [op |-> op, key |-> key, connected |-> connected,
   failed |-> connected /\ fails, contacted |-> out.contacted,
   ok |-> out.ok, value |-> out.value, count |-> out.count]

NoCall == Called("new", <<>>, FALSE, FALSE, Outcome(<<>>, FALSE, FALSE, Absent, 0))

\* the values a successful set stored last, with the seconds left of its ttl
Stored(key, value, ttl) ==
  [lastSet EXCEPT ![key] = Some([value |-> value, ttl |-> ttl])]

Forgotten(keys) == [k \in CacheKeys |-> IF k \in keys THEN Absent ELSE lastSet[k]]

OthersIdle ==
  /\ dexUpstream = Failure
  /\ jupUpstream = Failure
  /\ aggQuery = CycleQuery
  /\ pairIn = <<Absent, Absent>>
  /\ aggOp = "idle"
  /\ aggOut = <<>>
  /\ WsIdle
  /\ LimiterIdle

InitCache ==
  /\ isConnected = FALSE
  /\ redis = [k \in CacheKeys |-> Absent]
  /\ scan = Absent
  /\ cacheLast = NoCall
  /\ lastSet = [k \in CacheKeys |-> Absent]
  /\ searchCall = Absent
  /\ searchLast = <<>>
  /\ OthersIdle
  /\ FrontIdle

\* the client can raise on a command only when the command is sent
Raises == IF isConnected THEN BOOLEAN ELSE {FALSE}

CacheFrame == UNCHANGED <<aggVars, wsVars, histVars, rlVars, rlHist, frontVars>>

CacheGet ==
  \E key \in GenericKeys, fails \in Raises :
    \E out \in {cacheGet(redis, isConnected, fails, key)} :
      /\ redis' = out.redis
      /\ cacheLast' = Called("get", key, isConnected, fails, out)
      /\ UNCHANGED <<isConnected, scan, lastSet, searchCall, searchLast>>
      /\ CacheFrame

CacheSet ==
  \E key \in GenericKeys, value \in CacheValues, ttl \in 1..MaxTtl,
     fails \in Raises :
    \E out \in {cacheSet(redis, isConnected, fails, key, value, ttl)} :
      /\ redis' = out.redis
      /\ cacheLast' = Called("set", key, isConnected, fails, out)
      /\ lastSet' = IF out.ok THEN Stored(key, value, ttl) ELSE lastSet
      /\ UNCHANGED <<isConnected, scan, searchCall, searchLast>>
      /\ CacheFrame

CacheDelete ==
  \E key \in GenericKeys, fails \in Raises :
    \E out \in {cacheDelete(redis, isConnected, fails, key)} :
      /\ redis' = out.redis
      /\ cacheLast' = Called("delete", key, isConnected, fails, out)
      /\ lastSet' = IF out.ok THEN Forgotten({key}) ELSE lastSet
      /\ UNCHANGED <<isConnected, scan, searchCall, searchLast>>
      /\ CacheFrame

CacheExists ==
  \E key \in GenericKeys, fails \in Raises :
    \E out \in {cacheExists(redis, isConnected, fails, key)} :
      /\ redis' = out.redis
      /\ cacheLast' = Called("exists", key, isConnected, fails, out)
      /\ UNCHANGED <<isConnected, scan, lastSet, searchCall, searchLast>>
      /\ CacheFrame

CacheTtl ==
  \E key \in GenericKeys, fails \in Raises :
    \E out \in {cacheTtl(redis, isConnected, fails, key)} :
      /\ redis' = out.redis
      /\ cacheLast' = Called("ttl", key, isConnected, fails, out)
      /\ UNCHANGED <<isConnected, scan, lastSet, searchCall, searchLast>>
      /\ CacheFrame

\* deletePattern(pattern) is called and runs until KEYS has answered
DeletePatternKeys ==
  /\ scan = Absent
  /\ \E pattern \in Patterns, fails \in Raises :
       \E step \in {deletePatternKeys(redis, isConnected, fails, pattern)} :
         /\ scan' = IF step.returned THEN Absent
                    ELSE Some([pattern |-> pattern, keys |-> step.keys])
         /\ cacheLast' = Called(IF step.returned THEN "deletePattern"
                                                 ELSE "deletePattern:keys",
                                pattern, isConnected, fails, step.out)
  /\ UNCHANGED <<isConnected, redis, lastSet, searchCall, searchLast>>
  /\ CacheFrame

\* DEL of the keys found has answered: deletePattern returns
DeletePatternDel ==
  /\ scan # Absent
  /\ \E fails \in BOOLEAN :
       \E out \in {deletePatternDel(redis, fails, scan[1].keys)} :
         /\ redis' = out.redis
         /\ cacheLast' = Called("deletePattern", scan[1].pattern, TRUE, fails, out)
         /\ lastSet' = IF out.ok THEN Forgotten(scan[1].keys) ELSE lastSet
  /\ scan' = Absent
  /\ UNCHANGED <<isConnected, searchCall, searchLast>>
  /\ CacheFrame

\* one second passes
CacheTick ==
  /\ redis' = expire(redis)
  /\ lastSet' = [k \in CacheKeys |->
                   IF lastSet[k] = Absent THEN Absent
                   ELSE IF lastSet[k][1].ttl <= 1
                        THEN Some([value |-> <<>>, ttl |-> 0])
                        ELSE Some([lastSet[k][1] EXCEPT !.ttl = @ - 1])]
  /\ cacheLast' = [NoCall EXCEPT !.op = "tick"]
  /\ UNCHANGED <<isConnected, scan, searchCall, searchLast>>
  /\ CacheFrame

\* the client's 'connect' event
CacheConnect ==
  /\ ~isConnected
  /\ isConnected' = TRUE
  /\ cacheLast' = [NoCall EXCEPT !.op = "connect"]
  /\ UNCHANGED <<redis, scan, lastSet, searchCall, searchLast>>
  /\ CacheFrame

\* the client's 'error' or 'close' event
CacheConnectionLost ==
  /\ isConnected
  /\ isConnected' = FALSE
  /\ cacheLast' = [NoCall EXCEPT !.op = "close"]
  /\ UNCHANGED <<redis, scan, lastSet, searchCall, searchLast>>
  /\ CacheFrame

NextCache ==
  \/ CacheGet \/ CacheSet \/ CacheDelete \/ CacheExists \/ CacheTtl
  \/ DeletePatternKeys \/ DeletePatternDel
  \/ CacheTick \/ CacheConnect \/ CacheConnectionLost

SpecCache == InitCache /\ [][NextCache]_vars

----------------------------------------------------------------------------
(* AggregatorService.searchTokens with its cache                           *)

\* config.cache.ttl, read at each set
CACHE_TTL == MaxTtl

\* what the two endpoints answer to a search
SearchDexAnswers ==
  { Failure, Answer(<<>>),
    Answer(<<Tok(<<"a">>, "n1", 10, 50, 100000000, 7, 3, Some(1), Some(2), Some(5)),
             Tok(<<"a">>, "n3", 11, 55, 120000000, 7, 3, Absent, Some(0), Some(7))>>) }

SearchJupAnswers ==
  { Failure,
    Answer(<<Tok(<<"a">>, "j1", 0, 0, 25000000, 0, 0, Absent, Absent, Some(9))>>) }

\* if (cached) written as if (cached && cached.length)
cacheHit_nonEmpty(cached) == cached # Absent /\ cached[1] # <<>>

\* if (cached): null is a miss, every list is a hit, the empty one too
cacheHit(cached) == cached # Absent

\* a search that returned: its query, whether the cache answered, the list
\* returned, the calls made to each source client and the clients whose
\* call failed
Searched(query, hit, result, dexCalls, jupCalls) ==
  [op |-> "search", query |-> query, hit |-> hit, result |-> result,
   dexCalls |-> dexCalls, jupCalls |-> jupCalls, failed |-> {}]

\* the source clients whose endpoint did not answer
FailedSources(dex, jup) ==
  (IF dex = Failure THEN {"dexscreener"} ELSE {})
    \cup (IF jup = Failure THEN {"jupiter"} ELSE {})

NoSearch == [Searched(<<>>, FALSE, <<>>, 0, 0) EXCEPT !.op = "new"]

InitSearch ==
  /\ isConnected = FALSE
  /\ redis = [k \in CacheKeys |-> Absent]
  /\ scan = Absent
  /\ cacheLast = NoCall
  /\ lastSet = [k \in CacheKeys |-> Absent]
  /\ searchCall = Absent
  /\ searchLast = NoSearch
  /\ OthersIdle
  /\ FrontIdle

\* searchTokens(query) is called and runs until the cache has answered: on a
\* hit it returns the cached list, on a miss it goes on to the sources
SearchCall ==
  /\ searchCall = Absent
  /\ \E query \in Queries, fails \in Raises :
       \E out \in {cacheGet(redis, isConnected, fails, SearchKey(query))} :
         /\ cacheLast' = Called("get", SearchKey(query), isConnected, fails, out)
         /\ IF cacheHit(out.value)
            THEN /\ searchLast' = Searched(query, TRUE, out.value[1], 0, 0)
                 /\ UNCHANGED searchCall
            ELSE /\ searchCall' = Some(query)
                 /\ searchLast' = [NoSearch EXCEPT !.op = "miss", !.query = query]
  /\ UNCHANGED <<isConnected, redis, scan, lastSet>>
  /\ CacheFrame

\* a settle that stores the merged list only when both sources answered
SearchSettle_storesCompleteOnly ==
  /\ searchCall # Absent
  /\ \E dex \in SearchDexAnswers, jup \in SearchJupAnswers, fails \in Raises :
       \E mergedTokens \in {searchTokens(dexScreenerSearchTokens(dex),
                                         jupiterSearchTokens(jup))} :
         \E out \in {IF FailedSources(dex, jup) = {}
                     THEN cacheSet(redis, isConnected, fails,
                                   SearchKey(searchCall[1]), mergedTokens, CACHE_TTL)
                     ELSE Outcome(redis, FALSE, FALSE, Absent, 0)} :
           /\ redis' = out.redis
           /\ cacheLast' = Called("set", SearchKey(searchCall[1]), isConnected,
                                  fails, out)
           /\ lastSet' = IF out.ok
                         THEN Stored(SearchKey(searchCall[1]), mergedTokens, CACHE_TTL)
                         ELSE lastSet
           /\ searchLast' = [Searched(searchCall[1], FALSE, mergedTokens, 1, 1)
                               EXCEPT !.failed = FailedSources(dex, jup)]
  /\ searchCall' = Absent
  /\ UNCHANGED <<isConnected, scan>>
  /\ CacheFrame

\* both source clients have settled: the lists are merged, the merged list is
\* set under the key of the query and returned
SearchSettle ==
  /\ searchCall # Absent
  /\ \E dex \in SearchDexAnswers, jup \in SearchJupAnswers, fails \in Raises :
       \E mergedTokens \in {searchTokens(dexScreenerSearchTokens(dex),
                                         jupiterSearchTokens(jup))} :
         \E out \in {cacheSet(redis, isConnected, fails,
                              SearchKey(searchCall[1]), mergedTokens, CACHE_TTL)} :
           /\ redis' = out.redis
           /\ cacheLast' = Called("set", SearchKey(searchCall[1]), isConnected,
                                  fails, out)
           /\ lastSet' = IF out.ok
                         THEN Stored(SearchKey(searchCall[1]), mergedTokens, CACHE_TTL)
                         ELSE lastSet
           /\ searchLast' = [Searched(searchCall[1], FALSE, mergedTokens, 1, 1)
                               EXCEPT !.failed = FailedSources(dex, jup)]
  /\ searchCall' = Absent
  /\ UNCHANGED <<isConnected, scan>>
  /\ CacheFrame

NextSearch ==
  \/ SearchCall \/ SearchSettle
  \/ CacheTick \/ CacheConnect \/ CacheConnectionLost

SpecSearch == InitSearch /\ [][NextSearch]_vars

----------------------------------------------------------------------------
(* A client paging through listFiltered: it starts without a cursor and    *)
(* sends back each nextCursor it receives, limit and filters unchanged,    *)
(* while the base token set stays the same (it is served from the cache).  *)

\* longest base token set of a paging walk
MaxPageLen == 3
\* largest limit of a paging walk
MaxLimit == 2

\* records of four addresses; two share a volume, two lack the 1h change
PagePool ==
  { Tok(<<"a">>, "p1", 10, 50, 100000000, 7, 3, Some(1), Some(2), Some(5)),
    Tok(<<"b">>, "p2", 20, 90, 100000000, 5, 5, Absent, Some(3), Some(5)),
    Tok(<<"c">>, "p3", 0, 0, 25000000, 0, 0, Absent, Absent, Some(9)),
    Tok(<<"d">>, "p4", 12, 60, 300000000, 2, 8, Some(3), Some(2), Absent) }

\* base token sets: one record per address, as mergeAndDeduplicateTokens
\* leaves them
PageLists ==
  { l \in SeqsUpTo(PagePool, MaxPageLen) :
      \A i, j \in 1..Len(l) : i # j => l[i].token_address # l[j].token_address }

PageQueries ==
  { [limit |-> Some(l), cursor |-> Absent, sortBy |-> Some(s), order |-> Some(o),
     period |-> Some(p), minVolume |-> Some(m)] :
      l \in 1..MaxLimit,
      s \in {"volume", "price_change", "market_cap", "liquidity"},
      o \in {"asc", "desc"}, p \in {"1h", "24h"}, m \in {0, 100000000} }

InitPage ==
  /\ walk \in { [tokens |-> l, query |-> q, cursor |-> Absent, pages |-> <<>>,
                 nexts |-> <<>>, total |-> 0, done |-> FALSE] :
                  l \in PageLists, q \in PageQueries }
  /\ ctl = <<>>
  /\ tokenLast = <<>>
  /\ source = <<>>
  /\ sockets = <<>>
  /\ eventLoop = <<>>
  /\ OthersIdle
  /\ CacheIdle

\* the client asks for the next page and keeps what it gets
PageNext ==
  /\ ~walk.done
  /\ \E page \in {filterSortPaginate(walk.tokens,
                                     [walk.query EXCEPT !.cursor = walk.cursor])} :
       walk' = [walk EXCEPT !.pages = Append(@, page.data),
                            !.nexts = Append(@, page.nextCursor),
                            !.total = page.total,
                            !.cursor = page.nextCursor,
                            !.done = (page.nextCursor = Absent)]
  /\ UNCHANGED <<aggVars, wsVars, histVars, rlVars, rlHist, cacheVars, searchVars,
                 ctl, tokenLast, source, sockets, eventLoop>>

NextPage == PageNext

SpecPage == InitPage /\ [][NextPage]_vars /\ WF_vars(PageNext)
----------------------------------------------------------------------------
(* TokenController.getTokens: GET /api/tokens.  A query parameter is a     *)
(* string or is missing; numbers are parsed from it.                       *)

\* NaN, the one number that no comparison holds of
NaN == Absent
IsNaN(x) == x = NaN
Num(n) == Some(n)

\* a < b and a > b of JavaScript numbers: false when a is NaN
LessThan(a, b) == ~IsNaN(a) /\ a[1] < b
GreaterThan(a, b) == ~IsNaN(a) /\ a[1] > b

IsDigit(c) == \E i \in 1..10 : Digits[i] = c

RECURSIVE DigitPrefix(_)
DigitPrefix(s) ==
  IF s = <<>> \/ ~IsDigit(Head(s)) THEN <<>> ELSE <<Head(s)>> \o DigitPrefix(Tail(s))

\* parseInt(s, 10) of any string: an optional sign, then the leading digits;
\* NaN when there is none
parseIntRadix10(s) ==
  LET signed == s # <<>> /\ Head(s) \in {"-", "+"}
      digits == DigitPrefix(IF signed THEN Tail(s) ELSE s)
  IN IF digits = <<>> THEN NaN
     ELSE IF signed /\ Head(s) = "-" THEN Num(0 - parseInt(digits))
     ELSE Num(parseInt(digits))

\* parseFloat(s) of a string without fraction or exponent
parseFloat(s) == parseIntRadix10(s)

LimitParams ==
  { Absent, Some(<<>>), Some(<<"0">>), Some(<<"1">>), Some(<<"1", "0", "0">>),
    Some(<<"1", "0", "1">>), Some(<<"1", "5", "0">>), Some(<<"-", "1">>),
    Some(<<"7", "x">>), Some(<<"a", "b", "c">>) }
SortByParams ==
  { Absent, Some("volume"), Some("price_change"), Some("market_cap"),
    Some("liquidity"), Some("invalid_field") }
OrderParams == { Absent, Some("asc"), Some("desc"), Some("invalid") }
PeriodParams == { Absent, Some("1h"), Some("24h"), Some("7d"), Some("30d") }
MinVolumeParams == { Absent, Some(<<"5">>), Some(<<"a", "b", "c">>) }

Requests ==
  [limit : LimitParams, sortBy : SortByParams, order : OrderParams,
   period : PeriodParams, minVolume : MinVolumeParams]

AppError(statusCode, code) == [status |-> statusCode, code |-> code]

\* the validation of getTokens: the AppError it throws, or Absent
validate(req) ==
  LET parsedLimit == parseIntRadix10(Default(req.limit, <<"3", "0">>))
      sortBy == Default(req.sortBy, "volume")
      order == Default(req.order, "desc")
      period == Default(req.period, "24h")
  IN IF LessThan(parsedLimit, 1) \/ GreaterThan(parsedLimit, 100)
     THEN Some(AppError(400, "INVALID_LIMIT"))
     ELSE IF sortBy \notin {"volume", "price_change", "market_cap", "liquidity"}
     THEN Some(AppError(400, "INVALID_SORT_BY"))
     ELSE IF order \notin {"asc", "desc"}
     THEN Some(AppError(400, "INVALID_ORDER"))
     ELSE IF period \notin {"1h", "24h", "7d"}
     THEN Some(AppError(400, "INVALID_PERIOD"))
     ELSE Absent

\* the TokenQuery handed to aggregatorService.getFilteredTokens
controllerQuery(req) ==
  [limit |-> parseIntRadix10(Default(req.limit, <<"3", "0">>)),
   sortBy |-> Default(req.sortBy, "volume"),
   order |-> Default(req.order, "desc"),
   period |-> Default(req.period, "24h"),
   minVolume |-> parseFloat(Default(req.minVolume, <<"0">>))]

NoQuery == [limit |-> NaN, sortBy |-> "", order |-> "", period |-> "",
            minVolume |-> NaN]

\* what a request came to: the status and error code of the response, whether
\* the aggregator was called, and with which query
Handled(req, status, code, called, query) ==
  [op |-> "getTokens", request |-> req, status |-> status, code |-> code,
   called |-> called, query |-> query]

InitController ==
  /\ ctl = [op |-> "new"]
  /\ walk = <<>>
  /\ tokenLast = <<>>
  /\ source = <<>>
  /\ sockets = <<>>
  /\ eventLoop = <<>>
  /\ OthersIdle
  /\ CacheIdle

CtlFrame ==
  UNCHANGED <<aggVars, wsVars, histVars, rlVars, rlHist, cacheVars, searchVars,
              walk, tokenLast, source, sockets, eventLoop>>

\* getTokens as a whole: a request that fails validation is answered by the
\* error handler with the status and code of its AppError; one that passes is
\* handed to the aggregator, whose page is sent with status 200 and whose
\* exception is answered as an internal error
getTokens(req, throws) ==
  IF validate(req) # Absent
  THEN Handled(req, validate(req)[1].status, validate(req)[1].code, FALSE, NoQuery)
  ELSE IF throws
  THEN Handled(req, 500, "INTERNAL_SERVER_ERROR", TRUE, controllerQuery(req))
  ELSE Handled(req, 200, "", TRUE, controllerQuery(req))

\* one request per behaviour: the controller keeps nothing between requests
GetTokens ==
  /\ ctl.op = "new"
  /\ \E req \in Requests, throws \in BOOLEAN : ctl' = getTokens(req, throws)
  /\ CtlFrame

NextController == GetTokens

SpecController == InitController /\ [][NextController]_vars
----------------------------------------------------------------------------
(* AggregatorService.getTokenByAddress with its cache.  A single token is  *)
(* kept in the store as the one-element list of it.                        *)

\* the record each source has for an address
DexRecord(address) ==
  IF address = <<"a">>
  THEN Tok(<<"a">>, "n1", 10, 50, 100000000, 7, 3, Some(1), Some(2), Some(5))
  ELSE Tok(<<"b">>, "n7", 20, 90, 100000000, 5, 5, Some(2), Some(3), Some(5))

JupRecord(address) ==
  IF address = <<"a">>
  THEN Tok(<<"a">>, "j1", 0, 0, 25000000, 0, 0, Absent, Absent, Some(9))
  ELSE Tok(<<"b">>, "j2", 0, 0, 0, 0, 0, Absent, Absent, Some(1))

\* what the two endpoints answer when asked for an address: a failure, no
\* record, or the record
TokenDexAnswers(address) == { Failure, Answer(<<>>), Answer(<<DexRecord(address)>>) }
TokenJupAnswers(address) == { Failure, Answer(<<>>), Answer(<<JupRecord(address)>>) }

\* a getTokenByAddress call: its address, whether the cache answered, the
\* token returned or null, what the sources answered, and the calls made to
\* each source client
TokenCalled(op, address, hit, result, dex, jup, calls) ==
  [op |-> op, address |-> address, hit |-> hit, result |-> result,
   dex |-> dex, jup |-> jup, dexCalls |-> calls, jupCalls |-> calls]

NoTokenCall == TokenCalled("new", <<>>, FALSE, Absent, Failure, Failure, 0)

\* getTokenByAddress from the answers of the sources on, without the test
\* for a null merge: null is set in the cache as well
tokenSettle_cachesNull(store, connected, fails, address, dex, jup) ==
  LET dexResult == dexScreenerGetTokenByAddress(dex)
      jupResult == jupiterGetTokenInfo(jup)
      mergedToken == mergeTokenData(dexResult, jupResult)
  IN [result |-> mergedToken,
      set |-> TRUE,
      out |-> cacheSet(store, connected, fails, TokenKey(address),
                       mergedToken, CACHE_TTL)]

\* getTokenByAddress from the answers of the sources on: a rejected source
\* counts as null, the two results are merged, a null merge is returned as it
\* is, any other is set in the cache and returned
tokenSettle(store, connected, fails, address, dex, jup) ==
  LET dexResult == dexScreenerGetTokenByAddress(dex)
      jupResult == jupiterGetTokenInfo(jup)
      mergedToken == mergeTokenData(dexResult, jupResult)
  IN IF mergedToken = Absent
     THEN [result |-> Absent, set |-> FALSE,
           out |-> Outcome(store, FALSE, FALSE, Absent, 0)]
     ELSE [result |-> mergedToken, set |-> TRUE,
           out |-> cacheSet(store, connected, fails, TokenKey(address),
                            mergedToken, CACHE_TTL)]

InitToken ==
  /\ isConnected = FALSE
  /\ redis = [k \in CacheKeys |-> Absent]
  /\ scan = Absent
  /\ cacheLast = NoCall
  /\ lastSet = [k \in CacheKeys |-> Absent]
  /\ searchCall = Absent
  /\ searchLast = <<>>
  /\ tokenLast = NoTokenCall
  /\ walk = <<>>
  /\ ctl = <<>>
  /\ source = <<>>
  /\ sockets = <<>>
  /\ eventLoop = <<>>
  /\ OthersIdle

TokenFrame ==
  UNCHANGED <<aggVars, wsVars, histVars, rlVars, rlHist, searchVars,
              walk, ctl, source, sockets, eventLoop>>

\* getTokenByAddress(address) is called and runs until the cache has
\* answered: a hit is returned, a miss goes on to the sources
TokenCall ==
  /\ tokenLast.op # "miss"
  /\ \E address \in Addresses, fails \in Raises :
       \E out \in {cacheGet(redis, isConnected, fails, TokenKey(address))} :
         /\ cacheLast' = Called("get", TokenKey(address), isConnected, fails, out)
         /\ tokenLast' =
              IF cacheHit(out.value)
              THEN TokenCalled("token", address, TRUE, Some(out.value[1][1]),
                               Failure, Failure, 0)
              ELSE TokenCalled("miss", address, FALSE, Absent, Failure, Failure, 0)
  /\ UNCHANGED <<isConnected, redis, scan, lastSet>>
  /\ TokenFrame

\* both source clients have settled
TokenSettle ==
  /\ tokenLast.op = "miss"
  /\ \E dex \in TokenDexAnswers(tokenLast.address),
        jup \in TokenJupAnswers(tokenLast.address), fails \in Raises :
       \E step \in {tokenSettle(redis, isConnected, fails, tokenLast.address,
                                dex, jup)} :
         /\ redis' = step.out.redis
         /\ cacheLast' = IF step.set
                         THEN Called("set", TokenKey(tokenLast.address),
                                     isConnected, fails, step.out)
                         ELSE cacheLast
         /\ lastSet' = IF step.out.ok
                       THEN Stored(TokenKey(tokenLast.address), step.result, CACHE_TTL)
                       ELSE lastSet
         /\ tokenLast' = TokenCalled("token", tokenLast.address, FALSE, step.result,
                                     dex, jup, 1)
  /\ UNCHANGED <<isConnected, scan>>
  /\ TokenFrame

NextToken ==
  \/ TokenCall \/ TokenSettle
  \/ CacheTick \/ CacheConnect \/ CacheConnectionLost

SpecToken == InitToken /\ [][NextToken]_vars
----------------------------------------------------------------------------
(* AggregatorService.invalidateCache over the shared store                 *)
(* (websocket.service.ts 508-511).  The aggregator and the two source      *)
(* clients write their lists through the one cacheService; invalidateCache *)
(* hands a pattern to deletePattern, its own prefix followed by * when it  *)
(* is given none.                                                          *)

\* the keys written while an invalidation runs: two of the aggregator, one
\* of each source client and one of another caller
InvalidateScope ==
  { SearchKey(<<"a">>), PopularKey, ProviderKey("dexscreener", <<"a">>),
    ProviderKey("jupiter", <<"a">>), <<"x", ":", "1">> }

\* the patterns handed to invalidateCache: none, the empty string, one
InvalidateParams == { Absent, Some(<<>>), Some(<<"q", ":", "*">>) }

\* pattern || `${this.CACHE_PREFIX}*`
invalidatePattern(pattern) ==
  IF pattern = Absent \/ pattern[1] = <<>> THEN CACHE_PREFIX \o <<"*">>
  ELSE pattern[1]

InitInvalidate ==
  /\ isConnected = FALSE
  /\ redis = [k \in CacheKeys |-> Absent]
  /\ scan = Absent
  /\ cacheLast = NoCall
  /\ lastSet = [k \in CacheKeys |-> Absent]
  /\ searchCall = Absent
  /\ searchLast = <<>>
  /\ OthersIdle
  /\ FrontIdle

\* a request of the aggregator or of a source client reaches its
\* cacheService.set(cacheKey, tokens, this.CACHE_TTL)
ScopedSet ==
  \E key \in InvalidateScope, fails \in Raises :
    \E value \in {<<Tok(<<"a">>, "n1", 10, 50, 100000000, 7, 3, Some(1), Some(2), Some(5))>>},
       ttl \in {CACHE_TTL} :
      \E out \in {cacheSet(redis, isConnected, fails, key, value, ttl)} :
        /\ redis' = out.redis
        /\ cacheLast' = Called("set", key, isConnected, fails, out)
        /\ lastSet' = IF out.ok THEN Stored(key, value, ttl) ELSE lastSet
        /\ UNCHANGED <<isConnected, scan, searchCall, searchLast>>
        /\ CacheFrame

\* invalidateCache(pattern) is called and runs until KEYS has answered; the
\* DEL that follows is DeletePatternDel
InvalidateCache ==
  /\ scan = Absent
  /\ \E param \in InvalidateParams, fails \in Raises :
       \E step \in {deletePatternKeys(redis, isConnected, fails,
                                      invalidatePattern(param))} :
         /\ scan' = IF step.returned THEN Absent
                    ELSE Some([pattern |-> invalidatePattern(param),
                               keys |-> step.keys])
         /\ cacheLast' = Called(IF step.returned THEN "deletePattern"
                                                 ELSE "deletePattern:keys",
                                invalidatePattern(param), isConnected, fails,
                                step.out)
  /\ UNCHANGED <<isConnected, redis, lastSet, searchCall, searchLast>>
  /\ CacheFrame

NextInvalidate ==
  \/ ScopedSet \/ InvalidateCache \/ DeletePatternDel
  \/ CacheTick \/ CacheConnect \/ CacheConnectionLost

SpecInvalidate == InitInvalidate /\ [][NextInvalidate]_vars

\* searches while the aggregator's cache is invalidated now and then
NextPartial ==
  \/ SearchCall \/ SearchSettle \/ InvalidateCache \/ DeletePatternDel
  \/ CacheTick \/ CacheConnect \/ CacheConnectionLost

SpecPartial == InitSearch /\ [][NextPartial]_vars

----------------------------------------------------------------------------
(* DexScreenerAPI.searchTokens and JupiterAPI.searchTokens (part_002       *)
(* 96-133, part_001 317-356): the provider cache, the client's own         *)
(* RateLimiter, the request and the response interceptor.  One search runs *)
(* at a time; each client keeps its limiter's map from call to call.       *)

\* the identifiers a search hands to its limiter: 'search' before the
\* request, 'global' in the response interceptor after a 429
SourceIdentifiers == {"search", "global"}

\* what the endpoint of a client sends back: 200 with the records its
\* transform yields, 429, or no usable response (status 500)
SourceResponses(client) ==
  { [status |-> 200, tokens |-> a.tokens] :
      a \in { x \in (IF client = "dexscreener" THEN SearchDexAnswers
                                                  ELSE SearchJupAnswers) : x.ok } }
    \cup { [status |-> 429, tokens |-> <<>>], [status |-> 500, tokens |-> <<>>] }

Returned(tokens) == [kind |-> "returned", tokens |-> tokens]
SourceThrown == [kind |-> "thrown", tokens |-> <<>>]

\* the catch block: DexScreener rethrows, Jupiter returns []
sourceCatch(client) == IF client = "dexscreener" THEN SourceThrown ELSE Returned(<<>>)

\* a search of a client: where it is, its arguments, the waitForSlot it is
\* sleeping in, the map of each client's limiter, and what it has done so far: hit
\* the cache, been admitted, sent requests, written the cache, got a status
SourceCall(pc, client, query, w, limiters) ==
  [pc |-> pc, client |-> client, query |-> query, waiter |-> w,
   limiters |-> limiters, hit |-> FALSE, admitted |-> FALSE, refused |-> FALSE,
   requests |-> 0, sets |-> 0, status |-> 0, result |-> Returned(<<>>)]

\* if (!canProceed) left out: the request is sent whatever waitForSlot said
afterWaitForSlot_unchecked(s, step) ==
  LET t == [s EXCEPT !.waiter = IF step.waiter.pc = "sleeping"
                                 THEN step.waiter ELSE NoWaiter,
                     !.limiters[s.client] = step.requestCounts]
  IN IF step.waiter.pc = "sleeping" THEN [t EXCEPT !.pc = "admit"]
     ELSE [t EXCEPT !.pc = "upstream", !.admitted = step.waiter.result,
                    !.refused = ~step.waiter.result, !.requests = @ + 1]

\* the search after a step of its waitForSlot('search'): still sleeping, or
\* canProceed is known: the request is sent, or the error is thrown and caught
afterWaitForSlot(s, step) ==
  LET t == [s EXCEPT !.waiter = IF step.waiter.pc = "sleeping"
                                 THEN step.waiter ELSE NoWaiter,
                     !.limiters[s.client] = step.requestCounts]
  IN IF step.waiter.pc = "sleeping" THEN [t EXCEPT !.pc = "admit"]
     ELSE IF step.waiter.result
     THEN [t EXCEPT !.pc = "upstream", !.admitted = TRUE, !.requests = @ + 1]
     ELSE [t EXCEPT !.pc = "done", !.refused = TRUE,
                    !.result = sourceCatch(s.client)]

\* the search after a step of the interceptor's waitForSlot('global'): still
\* sleeping, or the rejection goes on to the catch block
afterBackoff(s, step) ==
  LET t == [s EXCEPT !.waiter = IF step.waiter.pc = "sleeping"
                                 THEN step.waiter ELSE NoWaiter,
                     !.limiters[s.client] = step.requestCounts]
  IN IF step.waiter.pc = "sleeping" THEN [t EXCEPT !.pc = "backoff"]
     ELSE [t EXCEPT !.pc = "done", !.result = sourceCatch(s.client)]

\* waitForSlot(identifier) of the client's limiter from its first line
firstWait(s, identifier, t) ==
  waitLoop([NoWaiter EXCEPT !.identifier = identifier, !.maxRetries = MaxRetries],
           s.limiters[s.client], t)

\* the sleep is over: retries++ and on from the loop test
nextWait(s, t) ==
  waitLoop([s.waiter EXCEPT !.retries = @ + 1], s.limiters[s.client], t)

InitSource ==
  /\ source = SourceCall("idle", "dexscreener", <<"a">>, NoWaiter,
                         [c \in Clients |-> [i \in SourceIdentifiers |-> Absent]])
  /\ sockets = <<>>
  /\ eventLoop = <<>>
  /\ walk = <<>>
  /\ ctl = <<>>
  /\ tokenLast = <<>>
  /\ maxRequests = 1
  /\ windowMs = MaxTime + 1
  /\ requestCounts = <<>>
  /\ now = 0
  /\ waiter = <<>>
  /\ rlLast = <<>>
  /\ admitLog = <<>>
  /\ windowLog = <<>>
  /\ purge = <<>>
  /\ isConnected = FALSE
  /\ redis = [k \in CacheKeys |-> Absent]
  /\ scan = Absent
  /\ cacheLast = NoCall
  /\ lastSet = [k \in CacheKeys |-> Absent]
  /\ searchCall = Absent
  /\ searchLast = <<>>
  /\ dexUpstream = Failure
  /\ jupUpstream = Failure
  /\ aggQuery = CycleQuery
  /\ pairIn = <<Absent, Absent>>
  /\ aggOp = "idle"
  /\ aggOut = <<>>
  /\ WsIdle

SourceFrame ==
  UNCHANGED <<aggVars, wsVars, histVars, maxRequests, windowMs, requestCounts,
              waiter, rlHist, isConnected, scan, cacheLast, lastSet,
              searchVars, walk, ctl, tokenLast, sockets, eventLoop>>

\* searchTokens(query) is called: the cache is read; on a hit the list is
\* returned, otherwise the call runs to the first await or return of
\* waitForSlot('search')
SourceSearch ==
  /\ source.pc \in {"idle", "done"}
  /\ now <= MaxTime
  /\ \E client \in Clients, query \in Queries, fails \in Raises :
       LET s == SourceCall("idle", client, query, NoWaiter, source.limiters)
           cached == cacheGet(redis, isConnected, fails, ProviderKey(client, query))
       IN source' = IF cacheHit(cached.value)
                    THEN [s EXCEPT !.pc = "done", !.hit = TRUE,
                                   !.result = Returned(cached.value[1])]
                    ELSE afterWaitForSlot(s, firstWait(s, "search", now))
  /\ UNCHANGED <<redis, now>>
  /\ SourceFrame

\* a sleep of waitForSlot is over
SourceWake ==
  /\ source.pc \in {"admit", "backoff"}
  /\ now >= source.waiter.wakeAt
  /\ source' = IF source.pc = "admit"
               THEN afterWaitForSlot(source, nextWait(source, now))
               ELSE afterBackoff(source, nextWait(source, now))
  /\ UNCHANGED <<redis, now>>
  /\ SourceFrame

\* the request has been answered: a 200 is transformed, cached and returned;
\* a 429 goes through waitForSlot('global') and is then rejected; any other
\* error is rejected at once
SourceResponse ==
  /\ source.pc = "upstream"
  /\ \E response \in SourceResponses(source.client), fails \in Raises :
       LET key == ProviderKey(source.client, source.query)
           out == cacheSet(redis, isConnected, fails, key, response.tokens, CACHE_TTL)
           s == [source EXCEPT !.status = response.status]
       IN IF response.status = 200
          THEN /\ redis' = out.redis
               /\ source' = [s EXCEPT !.pc = "done", !.sets = @ + 1,
                                      !.result = Returned(response.tokens)]
          ELSE /\ redis' = redis
               /\ source' = IF response.status = 429
                            THEN afterBackoff(s, firstWait(s, "global", now))
                            ELSE [s EXCEPT !.pc = "done",
                                           !.result = sourceCatch(s.client)]
  /\ UNCHANGED now
  /\ SourceFrame

\* Date.now() moves on; a sleep that is due ends before the clock passes it
SourceTick ==
  /\ IF source.pc \in {"admit", "backoff"} THEN now < source.waiter.wakeAt
                                            ELSE now < MaxTime
  /\ now' = now + 1
  /\ UNCHANGED <<source, redis>>
  /\ SourceFrame

\* the Redis client's 'connect', 'error' and 'close' events
SourceCacheEvent ==
  /\ isConnected' = ~isConnected
  /\ UNCHANGED <<source, redis, now>>
  /\ UNCHANGED <<aggVars, wsVars, histVars, maxRequests, windowMs,
                 requestCounts, waiter, rlHist, scan, cacheLast, lastSet,
                 searchVars, walk, ctl, tokenLast, sockets, eventLoop>>

NextSource ==
  \/ SourceSearch \/ SourceWake \/ SourceResponse \/ SourceTick
  \/ SourceCacheEvent

SpecSource == InitSource /\ [][NextSource]_vars
----------------------------------------------------------------------------
(* WebSocketService: connections and sendInitialData beside the polling    *)
(* cycle (websocket.service.ts 30-36, 83-101, 128-246).  Both call         *)
(* getFilteredTokens without a search string, whose base list is the       *)
(* cached 'popular' list (361-390).  Next to the server a second copy of   *)
(* its cache and snapshot map is kept, driven by the same endpoint, timer  *)
(* and clock but with no client ever connecting: the cycle without the     *)
(* pushes.                                                                 *)

SocketIds == {"s1", "s2"}

\* the query of sendInitialData
InitialQuery ==
  [limit |-> Some(30), cursor |-> Absent, sortBy |-> Some("volume"),
   order |-> Some("desc"), period |-> Absent, minVolume |-> Absent]

\* what DexScreener answers to 'SOL' over time
ConnectAnswers ==
  { Failure,
    Answer(<<Tok(<<"a">>, "n1", 10, 50, 100000000, 7, 3, Some(1), Some(2), Some(5))>>),
    Answer(<<Tok(<<"b">>, "n7", 20, 90, 100000000, 5, 5, Some(2), Some(3), Some(5)),
             Tok(<<"a">>, "n2", 10, 50, 125000000, 9, 1, Some(1), Some(4), Some(6))>>) }

\* the base list of getFilteredTokens without a search string: the cached
\* list, or DexScreener's answer, which is then cached; a rejection is thrown
popularTokens(store, connected, upstream) ==
  LET cached == cacheGet(store, connected, FALSE, PopularKey)
      tokens == dexScreenerSearchTokens(upstream)
  IN IF cacheHit(cached.value)
     THEN [tokens |-> Fulfilled(cached.value[1]), redis |-> store]
     ELSE IF tokens.status = "fulfilled"
     THEN [tokens |-> tokens,
           redis |-> cacheSet(store, connected, FALSE, PopularKey,
                              tokens.value, CACHE_TTL).redis]
     ELSE [tokens |-> Rejected, redis |-> store]

\* a socket: whether it has connected, whether its sendInitialData is still
\* awaiting its fetch, and the initial_data payloads it has been sent
Socket(state, pending, pushes) ==
  [state |-> state, pending |-> pending, pushes |-> pushes]

\* this.io.to(socketId).emit with the room test left out: every open socket
\* receives the payload
emitTo_broadcast(conn, socketId, data) ==
  [id \in SocketIds |->
     IF conn[id].state = "open"
     THEN [conn[id] EXCEPT !.pushes = Append(@, data),
                           !.pending = IF id = socketId THEN FALSE ELSE @]
     ELSE [conn[id] EXCEPT !.pending = IF id = socketId THEN FALSE ELSE @]]

\* this.io.to(socketId).emit('initial_data', ...): the room of a socket id
\* holds that socket while it is connected
emitTo(conn, socketId, data) ==
  [id \in SocketIds |->
     IF id # socketId THEN conn[id]
     ELSE IF conn[id].state = "open"
     THEN [conn[id] EXCEPT !.pushes = Append(@, data), !.pending = FALSE]
     ELSE [conn[id] EXCEPT !.pending = FALSE]]

\* one run of the cycle over a cache and a snapshot map: the fetch, then the
\* diff pass, or the catch block
cycleOver(store, connected, upstream, map) ==
  LET base == popularTokens(store, connected, upstream)
      tokens == getFilteredTokensPopular(base.tokens, CycleQuery)
      pass == DiffPass(map, tokens.data)
  IN IF tokens.status = "ok"
     THEN [redis |-> base.redis, previousTokenData |-> pass.previousTokenData,
           events |-> pass.events, list |-> Some(tokens.data)]
     ELSE [redis |-> base.redis, previousTokenData |-> map, events |-> <<>>,
           list |-> Absent]

InitConnect ==
  /\ eventLoop = <<>>
  /\ sockets = [conn |-> [id \in SocketIds |-> Socket("none", FALSE, <<>>)],
                settled |-> "",
                alone |-> [redis |-> [k \in CacheKeys |-> Absent],
                           previousTokenData |-> <<>>, events |-> <<>>]]
  /\ source = <<>>
  /\ walk = <<>>
  /\ ctl = <<>>
  /\ tokenLast = <<>>
  /\ previousTokenData = <<>>
  /\ isRunning = TRUE
  /\ updateInterval = TRUE
  /\ inFlight = 1
  /\ snapBefore = <<>>
  /\ lastList = Absent
  /\ lastEvents = <<>>
  /\ repeated = FALSE
  /\ newCount = <<>>
  /\ dexUpstream \in ConnectAnswers
  /\ jupUpstream = Failure
  /\ aggQuery = CycleQuery
  /\ pairIn = <<Absent, Absent>>
  /\ aggOp = "idle"
  /\ aggOut = <<>>
  /\ isConnected = FALSE
  /\ redis = [k \in CacheKeys |-> Absent]
  /\ scan = Absent
  /\ cacheLast = NoCall
  /\ lastSet = [k \in CacheKeys |-> Absent]
  /\ searchCall = Absent
  /\ searchLast = <<>>
  /\ LimiterIdle

ConnectFrame ==
  UNCHANGED <<jupUpstream, aggQuery, pairIn, aggOp, aggOut, isRunning,
              updateInterval, repeated, newCount, rlVars, rlHist,
              scan, cacheLast, lastSet, searchVars, walk, ctl, tokenLast,
              source, eventLoop>>

\* io.on('connection'): sendInitialData(socket.id) is called and awaits its
\* fetch
ClientConnect ==
  \E id \in SocketIds :
    /\ sockets.conn[id].state = "none"
    /\ sockets' = [sockets EXCEPT !.conn[id] = Socket("open", TRUE, <<>>),
                                  !.settled = ""]
    /\ UNCHANGED <<inFlight, dexUpstream, isConnected, redis, previousTokenData,
                   snapBefore, lastList, lastEvents>>
    /\ ConnectFrame

\* the client goes away
ClientDisconnect ==
  \E id \in SocketIds :
    /\ sockets.conn[id].state = "open"
    /\ sockets' = [sockets EXCEPT !.conn[id].state = "closed", !.settled = ""]
    /\ UNCHANGED <<inFlight, dexUpstream, isConnected, redis, previousTokenData,
                   snapBefore, lastList, lastEvents>>
    /\ ConnectFrame

\* sendInitialData from its fetch on: tokens.data is emitted to the socket,
\* or the catch block logs
InitialDataSettle ==
  \E id \in SocketIds :
    /\ sockets.conn[id].pending
    /\ LET base == popularTokens(redis, isConnected, dexUpstream)
           tokens == getFilteredTokensPopular(base.tokens, InitialQuery)
       IN /\ redis' = base.redis
          /\ sockets' =
               IF tokens.status = "ok"
               THEN [sockets EXCEPT !.conn = emitTo(@, id, tokens.data),
                                    !.settled = "sent"]
               ELSE [sockets EXCEPT !.conn[id].pending = FALSE,
                                    !.settled = "failed"]
    /\ UNCHANGED <<inFlight, dexUpstream, isConnected, previousTokenData, snapBefore,
                   lastList, lastEvents>>
    /\ ConnectFrame

\* the first fetchAndBroadcastUpdates, called by the constructor: its cache
\* read was made before the Redis client could connect and found nothing
FirstCycle ==
  /\ inFlight = 1
  /\ inFlight' = 0
  /\ \E run \in {cycleOver([redis EXCEPT ![PopularKey] = Absent], isConnected,
                            dexUpstream, previousTokenData)},
        lone \in {cycleOver([sockets.alone.redis EXCEPT ![PopularKey] = Absent],
                            isConnected, dexUpstream,
                            sockets.alone.previousTokenData)} :
       /\ redis' = [redis EXCEPT ![PopularKey] =
                      IF run.redis[PopularKey] # Absent
                      THEN run.redis[PopularKey] ELSE @]
       /\ previousTokenData' = run.previousTokenData
       /\ lastEvents' = run.events
       /\ sockets' = [sockets EXCEPT
                        !.settled = "cycle",
                        !.alone = [redis |-> [@.redis EXCEPT ![PopularKey] =
                                               IF lone.redis[PopularKey] # Absent
                                               THEN lone.redis[PopularKey] ELSE @],
                                   previousTokenData |-> lone.previousTokenData,
                                   events |-> lone.events]]
  /\ UNCHANGED <<dexUpstream, isConnected, snapBefore, lastList>>
  /\ ConnectFrame

\* fetchAndBroadcastUpdates, on the timer: the server's run, and the run of
\* the copy that has no clients
ConnectCycle ==
  /\ isRunning
  /\ updateInterval
  /\ \E run \in {cycleOver(redis, isConnected, dexUpstream, previousTokenData)},
        lone \in {cycleOver(sockets.alone.redis, isConnected, dexUpstream,
                            sockets.alone.previousTokenData)} :
       /\ redis' = run.redis
       /\ previousTokenData' = run.previousTokenData
       /\ lastEvents' = run.events
       /\ sockets' = [sockets EXCEPT
                        !.settled = "cycle",
                        !.alone = [redis |-> lone.redis,
                                   previousTokenData |-> lone.previousTokenData,
                                   events |-> lone.events]]
  /\ UNCHANGED <<inFlight, dexUpstream, isConnected, snapBefore, lastList>>
  /\ ConnectFrame

\* the endpoint's data changes, or it starts or stops failing
UpstreamChanges ==
  /\ \E upstream \in ConnectAnswers \ {dexUpstream} : dexUpstream' = upstream
  /\ sockets' = [sockets EXCEPT !.settled = ""]
  /\ UNCHANGED <<inFlight, isConnected, redis, previousTokenData, snapBefore, lastList,
                 lastEvents>>
  /\ ConnectFrame

\* one second passes in the store
ConnectTick ==
  /\ redis' = expire(redis)
  /\ sockets' = [sockets EXCEPT !.settled = "",
                                !.alone.redis = expire(@)]
  /\ UNCHANGED <<inFlight, dexUpstream, isConnected, previousTokenData, snapBefore,
                 lastList, lastEvents>>
  /\ ConnectFrame

\* the Redis client's 'connect' event
ConnectCacheUp ==
  /\ ~isConnected
  /\ isConnected' = TRUE
  /\ sockets' = [sockets EXCEPT !.settled = ""]
  /\ UNCHANGED <<inFlight, dexUpstream, redis, previousTokenData, snapBefore, lastList,
                 lastEvents>>
  /\ ConnectFrame

NextConnect ==
  \/ ClientConnect \/ ClientDisconnect \/ InitialDataSettle
  \/ FirstCycle \/ ConnectCycle
  \/ UpstreamChanges \/ ConnectTick \/ ConnectCacheUp

SpecConnect == InitConnect /\ [][NextConnect]_vars
----------------------------------------------------------------------------
(* CacheService: the connection flag and the client's lifecycle events     *)

\* this.client.on('connect', ...): isConnected = true
onConnect(connected) == TRUE

\* an 'error' handler that only logs
onError_logsOnly(connected) == connected

\* this.client.on('error', ...): isConnected = false
onError(connected) == FALSE

\* this.client.on('close', ...): isConnected = false
onClose(connected) == FALSE

\* this.client.on('reconnecting', ...): a log line
onReconnecting(connected) == connected

\* getConnectionStatus()
getConnectionStatus == isConnected

\* disconnect(): await this.client.quit(), then isConnected = false; when
\* quit() rejects the assignment is not reached
disconnect(connected, rejects) == IF rejects THEN connected ELSE FALSE

InitLifecycle ==
  /\ isConnected = FALSE
  /\ redis = [k \in CacheKeys |-> Absent]
  /\ scan = Absent
  /\ cacheLast = NoCall
  /\ lastSet = [k \in CacheKeys |-> Absent]
  /\ searchCall = Absent
  /\ searchLast = <<>>
  /\ OthersIdle
  /\ FrontIdle

\* the events come from the client at any time, whatever the flag says
LifecycleConnect ==
  /\ isConnected' = onConnect(isConnected)
  /\ cacheLast' = [NoCall EXCEPT !.op = "connect"]
  /\ UNCHANGED <<redis, scan, lastSet, searchCall, searchLast>>
  /\ CacheFrame

LifecycleError ==
  /\ isConnected' = onError(isConnected)
  /\ cacheLast' = [NoCall EXCEPT !.op = "error"]
  /\ UNCHANGED <<redis, scan, lastSet, searchCall, searchLast>>
  /\ CacheFrame

LifecycleClose ==
  /\ isConnected' = onClose(isConnected)
  /\ cacheLast' = [NoCall EXCEPT !.op = "close"]
  /\ UNCHANGED <<redis, scan, lastSet, searchCall, searchLast>>
  /\ CacheFrame

LifecycleReconnecting ==
  /\ isConnected' = onReconnecting(isConnected)
  /\ cacheLast' = [NoCall EXCEPT !.op = "reconnecting"]
  /\ UNCHANGED <<redis, scan, lastSet, searchCall, searchLast>>
  /\ CacheFrame

LifecycleDisconnect ==
  \E rejects \in BOOLEAN :
    /\ isConnected' = disconnect(isConnected, rejects)
    /\ cacheLast' = [NoCall EXCEPT !.op = IF rejects THEN "disconnect:rejected"
                                                    ELSE "disconnect"]
    /\ UNCHANGED <<redis, scan, lastSet, searchCall, searchLast>>
    /\ CacheFrame

NextLifecycle ==
  \/ LifecycleConnect \/ LifecycleError \/ LifecycleClose
  \/ LifecycleReconnecting \/ LifecycleDisconnect
  \/ CacheGet \/ CacheSet \/ CacheDelete \/ CacheExists \/ CacheTtl
  \/ DeletePatternKeys \/ DeletePatternDel

SpecLifecycle == InitLifecycle /\ [][NextLifecycle]_vars
----------------------------------------------------------------------------
(* RateLimiter: the cleanup timer among admission checks                   *)

\* the last instant of the clock while cleanup is studied: two windows of
\* the longest length in WindowSet
MaxIdleTime == 4

\* the history kept beside the limiter: per identifier the instant of its
\* last canMakeRequest, the map as the same calls leave it when cleanup
\* never runs, and what the last call returns on that map
Purge(lastCheck, uncleaned, alone) ==
  [lastCheck |-> lastCheck, uncleaned |-> uncleaned, alone |-> alone]

InitCleanup ==
  /\ maxRequests \in 0..MaxRequests
  /\ windowMs \in WindowSet
  /\ requestCounts = [i \in Identifiers |-> Absent]
  /\ now = 0
  /\ waiter = NoWaiter
  /\ rlLast = Last("new", "search", FALSE, 0)
  /\ admitLog = [i \in Identifiers |-> <<>>]
  /\ windowLog = [i \in Identifiers |-> {}]
  /\ purge = Purge([i \in Identifiers |-> Absent],
                   [i \in Identifiers |-> Absent],
                   Last("new", "search", FALSE, 0))
  /\ dexUpstream = Failure
  /\ jupUpstream = Failure
  /\ aggQuery = CycleQuery
  /\ pairIn = <<Absent, Absent>>
  /\ aggOp = "idle"
  /\ aggOut = <<>>
  /\ WsIdle
  /\ CacheIdle
  /\ FrontIdle

CleanupFrame ==
  UNCHANGED <<maxRequests, windowMs, waiter, admitLog, windowLog, aggVars,
              wsVars, histVars, cacheVars, searchVars, frontVars>>

\* canMakeRequest(identifier)
CleanupCheck ==
  \E identifier \in Identifiers :
    \E r \in {canMakeRequest(requestCounts, identifier, now)},
       u \in {canMakeRequest(purge.uncleaned, identifier, now)} :
      /\ requestCounts' = r.requestCounts
      /\ rlLast' = Last("canMakeRequest", identifier, r.result, 0)
      /\ purge' = Purge([purge.lastCheck EXCEPT ![identifier] = Some(now)],
                        u.requestCounts,
                        Last("canMakeRequest", identifier, u.result, 0))
      /\ UNCHANGED now
      /\ CleanupFrame

\* getRemainingRequests(identifier)
CleanupRemaining ==
  \E identifier \in Identifiers :
    /\ rlLast' = Last("getRemainingRequests", identifier, FALSE,
                      getRemainingRequests(requestCounts, identifier, now))
    /\ purge' = [purge EXCEPT !.alone =
                   Last("getRemainingRequests", identifier, FALSE,
                        getRemainingRequests(purge.uncleaned, identifier, now))]
    /\ UNCHANGED <<requestCounts, now>>
    /\ CleanupFrame

\* the setInterval callback of the constructor fires
CleanupRun ==
  /\ requestCounts' = cleanup(requestCounts, now)
  /\ rlLast' = Last("cleanup", "search", FALSE, 0)
  /\ UNCHANGED <<now, purge>>
  /\ CleanupFrame

\* Date.now() moves on
CleanupTick ==
  /\ now < MaxIdleTime
  /\ now' = now + 1
  /\ rlLast' = Last("tick", "search", FALSE, 0)
  /\ UNCHANGED <<requestCounts, purge>>
  /\ CleanupFrame

NextCleanup == CleanupCheck \/ CleanupRemaining \/ CleanupRun \/ CleanupTick

SpecCleanup == InitCleanup /\ [][NextCleanup]_vars
----------------------------------------------------------------------------
(* fetchAndBroadcastUpdates on the event loop.  A callback runs until it    *)
(* awaits or returns; only then does the loop run another callback: a       *)
(* timer, the continuation of a fetch, a socket handler.  The pass is taken *)
(* one iteration of its for loop at a time.                                 *)

\* what the fetch of a cycle hands to the pass
PassPool == { t \in CyclePool : t.token_name \in {"n1", "n3", "n7"} }
PassLists == SeqsUpTo(PassPool, MaxSrcLen)

PassAddrs == { t.token_address : t \in PassPool }
PassIds == 1..MaxInFlight

\* a for loop whose body awaits
awaitsInLoop_everyIteration == TRUE

\* between the await of the fetch and the last emitEvent there is no await:
\* the for loop and the three emits are synchronous
awaitsInLoop == FALSE

\* a pass between the return of its fetch and its last emit: the list, the
\* index of the loop and the locals (the map is the service's)
Pass(id, currentTokens, i, st) ==
  [id |-> id, currentTokens |-> currentTokens, i |-> i,
   st |-> [st EXCEPT !.previousTokenData = <<>>]]

\* the callback the loop ran last: a timer tick, the begin, an iteration or
\* the emits of a pass, a socket handler; for an iteration, the pass that
\* wrote the entry it read (0: none, or a pass that has finished)
Ran(kind, id, readFrom) == [kind |-> kind, id |-> id, readFrom |-> readFrom]

\* iteration i of the for loop of a pass, on the map as it is now
loopIteration(p, map) ==
  DiffLoop(SubSeq(p.currentTokens, 1, p.i), p.i,
           [p.st EXCEPT !.previousTokenData = map])

\* the emits after the loop
emitUpdates(p) ==
  LET updates == [j \in 1..Len(p.st.updates) |-> p.currentTokens[p.st.updates[j]]]
  IN p.st.emitted
       \o emitBatch("tokens_updated", updates)
       \o emitBatch("price_update", p.st.priceUpdates)
       \o emitBatch("volume_spike", p.st.volumeSpikes)

InitPass ==
  /\ previousTokenData = <<>>
  /\ isRunning = TRUE
  /\ updateInterval = TRUE
  /\ inFlight = 1
  /\ snapBefore = <<>>
  /\ lastList = Absent
  /\ lastEvents = <<>>
  /\ repeated = FALSE
  /\ newCount = [a \in AddrSet |-> 0]
  /\ dexUpstream = Failure
  /\ jupUpstream = Failure
  /\ aggQuery = CycleQuery
  /\ pairIn = <<Absent, Absent>>
  /\ aggOp = "idle"
  /\ aggOut = <<>>
  /\ LimiterIdle
  /\ CacheIdle
  /\ walk = <<>>
  /\ ctl = <<>>
  /\ tokenLast = <<>>
  /\ source = <<>>
  /\ sockets = [rooms |-> {}, initial |-> FALSE]
  /\ eventLoop = [open |-> {}, current |-> 0,
                  writer |-> [a \in PassAddrs |-> 0],
                  last |-> Ran("new", 0, 0)]

PassFrame ==
  UNCHANGED <<isRunning, updateInterval, repeated, newCount, aggVars, rlVars,
              rlHist, cacheVars, searchVars, walk, ctl, tokenLast, source>>

\* the loop is free to run a new callback
LoopFree == eventLoop.current = 0

\* the loop is free, or is in this pass
MayContinue(p) == eventLoop.current \in {0, p.id}

\* the setInterval callback: fetchAndBroadcastUpdates up to its await
PassTimerTick ==
  /\ LoopFree
  /\ updateInterval /\ isRunning
  /\ inFlight < MaxInFlight
  /\ inFlight' = inFlight + 1
  /\ eventLoop' = [eventLoop EXCEPT !.last = Ran("tick", 0, 0)]
  /\ UNCHANGED <<previousTokenData, snapBefore, lastList, lastEvents, sockets>>
  /\ PassFrame

\* the fetch of a cycle has returned a list: its continuation starts
PassBegin ==
  /\ LoopFree
  /\ inFlight > 0
  /\ \E tokens \in PassLists :
       \E id \in PassIds \ { p.id : p \in eventLoop.open } :
         /\ \A other \in PassIds \ { p.id : p \in eventLoop.open } : id <= other
         /\ eventLoop' = [eventLoop EXCEPT
              !.open = @ \cup {Pass(id, tokens, 1, PassStart(<<>>))},
              !.current = id,
              !.last = Ran("begin", id, 0)]
         /\ lastList' = Some(tokens)
  /\ inFlight' = inFlight - 1
  /\ snapBefore' = previousTokenData
  /\ lastEvents' = <<>>
  /\ UNCHANGED <<previousTokenData, sockets>>
  /\ PassFrame

\* one iteration of the for loop: the entry of the token is read, the
\* token is diffed and stored
PassIteration ==
  \E p \in eventLoop.open :
    /\ MayContinue(p)
    /\ p.i <= Len(p.currentTokens)
    /\ \E st \in {loopIteration(p, previousTokenData)} :
         LET address == p.currentTokens[p.i].token_address
         IN /\ previousTokenData' = st.previousTokenData
            /\ eventLoop' = [eventLoop EXCEPT
                 !.open = (@ \ {p}) \cup {Pass(p.id, p.currentTokens, p.i + 1, st)},
                 !.current = IF awaitsInLoop THEN 0 ELSE p.id,
                 !.writer = IF address \in PassAddrs
                            THEN [@ EXCEPT ![address] = p.id] ELSE @,
                 !.last = Ran("iteration", p.id,
                              IF Has(previousTokenData, address)
                              THEN eventLoop.writer[address] ELSE 0)]
    /\ UNCHANGED <<inFlight, snapBefore, lastList, lastEvents, sockets>>
    /\ PassFrame

\* the loop is over: tokens_updated, price_update and volume_spike are
\* emitted and the callback returns
PassEmit ==
  \E p \in eventLoop.open :
    /\ MayContinue(p)
    /\ p.i > Len(p.currentTokens)
    /\ lastEvents' = emitUpdates(p)
    /\ lastList' = Some(p.currentTokens)
    /\ eventLoop' = [eventLoop EXCEPT
         !.open = @ \ {p},
         !.current = 0,
         !.writer = [a \in PassAddrs |-> IF @[a] = p.id THEN 0 ELSE @[a]],
         !.last = Ran("emit", p.id, 0)]
    /\ UNCHANGED <<previousTokenData, inFlight, snapBefore, sockets>>
    /\ PassFrame

\* sendInitialData from its fetch on: the emit to the socket
PassInitialData ==
  /\ LoopFree
  /\ ~sockets.initial
  /\ sockets' = [sockets EXCEPT !.initial = TRUE]
  /\ eventLoop' = [eventLoop EXCEPT !.last = Ran("initial_data", 0, 0)]
  /\ UNCHANGED <<previousTokenData, inFlight, snapBefore, lastList, lastEvents>>
  /\ PassFrame

\* socket.on('subscribe'): the socket joins the rooms of the addresses
PassSubscribe ==
  /\ LoopFree
  /\ \E tokenAddresses \in SUBSET PassAddrs :
       sockets' = [sockets EXCEPT !.rooms = @ \cup tokenAddresses]
  /\ eventLoop' = [eventLoop EXCEPT !.last = Ran("subscribe", 0, 0)]
  /\ UNCHANGED <<previousTokenData, inFlight, snapBefore, lastList, lastEvents>>
  /\ PassFrame

\* socket.on('unsubscribe'): the socket leaves the rooms of the addresses
PassUnsubscribe ==
  /\ LoopFree
  /\ \E tokenAddresses \in SUBSET PassAddrs :
       sockets' = [sockets EXCEPT !.rooms = @ \ tokenAddresses]
  /\ eventLoop' = [eventLoop EXCEPT !.last = Ran("unsubscribe", 0, 0)]
  /\ UNCHANGED <<previousTokenData, inFlight, snapBefore, lastList, lastEvents>>
  /\ PassFrame

NextPass ==
  \/ PassTimerTick \/ PassBegin \/ PassIteration \/ PassEmit
  \/ PassInitialData \/ PassSubscribe \/ PassUnsubscribe

SpecPass == InitPass /\ [][NextPass]_vars

----------------------------------------------------------------------------
(* Claims about the AggregatorService (SpecAgg) *)

\* the list mergeAndDeduplicateTokens receives in searchTokens
SearchInput ==
  (IF dexUpstream.ok THEN dexUpstream.tokens ELSE <<>>)
    \o (IF jupUpstream.ok THEN jupUpstream.tokens ELSE <<>>)

\* no two records of the list with one (non-empty) lowercased address
NoDupLower(list) ==
  \A i, j \in 1..Len(list) :
    i # j /\ list[i].token_address # <<>>
      => toLowerCase(list[i].token_address) # toLowerCase(list[j].token_address)

\* C1 (as claimed): every list the Aggregator returns -- from search, from
\* listFiltered with a search string and from listFiltered on the default
\* 'popular' path -- holds at most one token per lowercased address.
C1_OnePerAddress ==
  /\ aggOp = "search" => NoDupLower(aggOut)
  /\ aggOp \in {"list_search", "list_popular"} /\ aggOut.status = "ok"
       => NoDupLower(aggOut.data)

\* the part of C1 that the code does satisfy (search and listFiltered with a
\* search string); not a claim, kept as a cross-check of the model
SearchPathsOnePerAddress ==
  /\ aggOp = "search" => NoDupLower(aggOut)
  /\ aggOp = "list_search" => NoDupLower(aggOut.data)

\* the records of a list that share the lowercased address key
Group(list, key) == SelectSeq(list, LAMBDA t : toLowerCase(t.token_address) = key)

RECURSIVE SumVolume(_)
SumVolume(list) ==
  IF list = <<>> THEN 0 ELSE Head(list).volume_sol + SumVolume(Tail(list))

MaxOver(list, F(_)) ==
  CHOOSE m \in { F(list[i]) : i \in 1..Len(list) } :
    \A i \in 1..Len(list) : F(list[i]) <= m

LiquidityOf(t) == t.liquidity_sol
TransactionCountOf(t) == t.transaction_count
LastUpdatedOf(t) == OrZero(t.last_updated)

\* C2: when merge/deduplicate folds k >= 2 records sharing a lowercased
\* address, the one resulting record has volume = the sum of the k volumes and
\* liquidity, transactionCount, lastUpdated = the maximum of the k values
\* (a missing lastUpdated counting as 0).
C2_FoldSumsAndMaxes ==
  aggOp = "search" =>
    \A i \in 1..Len(aggOut) :
      LET g == Group(SearchInput, toLowerCase(aggOut[i].token_address))
      IN Len(g) >= 2 =>
           /\ aggOut[i].volume_sol = SumVolume(g)
           /\ aggOut[i].liquidity_sol = MaxOver(g, LiquidityOf)
           /\ aggOut[i].transaction_count = MaxOver(g, TransactionCountOf)
           /\ aggOut[i].last_updated = Some(MaxOver(g, LastUpdatedOf))

\* C2 witness: a search folded three records of one address, from both sources,
\* the largest liquidity not being the base record's
C2_Witness ==
  /\ aggOp = "search"
  /\ \E i \in 1..Len(aggOut) :
       LET g == Group(SearchInput, toLowerCase(aggOut[i].token_address))
       IN /\ Len(g) >= 3
          /\ dexUpstream.ok /\ jupUpstream.ok /\ jupUpstream.tokens # <<>>
          /\ aggOut[i].liquidity_sol > g[1].liquidity_sol
          /\ aggOut[i].volume_sol > g[1].volume_sol

\* every field but the four aggregated ones
OtherFields(t) ==
  [token_address |-> t.token_address, token_name |-> t.token_name,
   price_sol |-> t.price_sol, market_cap_sol |-> t.market_cap_sol,
   price_1hr_change |-> t.price_1hr_change,
   price_24hr_change |-> t.price_24hr_change]

\* C3 (as claimed): merging two records of one address takes every other field
\* from the record with a positive price, and from the first record when both
\* or neither have one.
C3_BaseIsPositiveElseFirst ==
  (/\ aggOp = "by_address"
   /\ pairIn[1] # Absent /\ pairIn[2] # Absent
   /\ toLowerCase(pairIn[1][1].token_address) = toLowerCase(pairIn[2][1].token_address))
  => LET t1 == pairIn[1][1]
         t2 == pairIn[2][1]
         expected == IF t1.price_sol > 0 THEN t1
                     ELSE IF t2.price_sol > 0 THEN t2 ELSE t1
     IN OtherFields(aggOut[1]) = OtherFields(expected)

\* C4 (as claimed): merging a record with itself yields an equal record, so an
\* address listed twice by one source is not double-counted by search.
C4_MergeIdempotent ==
  (/\ aggOp = "search"
   /\ Len(SearchInput) = 2
   /\ SearchInput[1] = SearchInput[2])
  => aggOut = <<SearchInput[1]>>

----------------------------------------------------------------------------
(* Claims about the polling cycle (Spec) *)

\* the list the last cycle diffed
List == lastList[1]

Indices(list) == [i \in 1..Len(list) |-> i]

SetMax(S) == CHOOSE m \in S : \A x \in S : x <= m

\* earlier positions of the list that hold the address of position i
Earlier(list, i) ==
  { j \in 1..(i - 1) : list[j].token_address = list[i].token_address }

\* the snapshot entry a fetched token is compared with: the entry the map held
\* when the cycle began, or the token of the same address that the cycle
\* stored just before it
Baseline(list, i) ==
  IF Earlier(list, i) # {} THEN Some(list[SetMax(Earlier(list, i))])
  ELSE IF list[i].token_address \in DOMAIN snapBefore
       THEN Some(snapBefore[list[i].token_address])
       ELSE Absent

HasBaseline(list, i) ==
  list[i].token_address # <<>> /\ Baseline(list, i) # Absent

\* the items of every push of one event type, in order
RECURSIVE Pushed(_, _)
Pushed(events, type) ==
  IF events = <<>> THEN <<>>
  ELSE (IF Head(events).type = type THEN Head(events).data ELSE <<>>)
         \o Pushed(Tail(events), type)

\* C5 (as claimed): when two consecutive cycles fetch the same token list, the
\* second one emits no event at all.
C5_NoEventOnRepeat == repeated => lastEvents = <<>>

\* what remains of C5 on lists without a repeated address; not a claim, kept
\* to show that the repeated address is what breaks it
NoEventOnRepeatOfDistinct ==
  repeated /\ NoDupLower(List) => lastEvents = <<>>

\* C6 (as claimed): a new cycle never starts while an earlier one is still
\* executing.
C6_CyclesSerialized == inFlight <= 1

\* C7: a token whose (valid) identifier has no snapshot entry triggers exactly
\* one new_token event in the cycle that first sees it, is in the snapshot map
\* after that cycle, and never triggers new_token again.
C7_NewTokenExactlyOnce ==
  /\ \A a \in AddrSet \ {<<>>} :
       /\ newCount[a] <= 1
       /\ newCount[a] = 1 <=> a \in DOMAIN previousTokenData
  /\ lastList # Absent =>
       \A a \in AddrSet \ {<<>>} :
         NewTokenCount(lastEvents, a) =
           IF a \notin DOMAIN snapBefore
              /\ \E i \in 1..Len(List) : List[i].token_address = a
           THEN 1 ELSE 0

\* C7 witness: a cycle saw an address it already had a snapshot of, without a
\* new_token for it, together with an address new to it
C7_Witness ==
  /\ lastList # Absent
  /\ \E i, j \in 1..Len(List) :
       /\ List[i].token_address \in DOMAIN snapBefore
       /\ NewTokenCount(lastEvents, List[i].token_address) = 0
       /\ List[j].token_address # <<>>
       /\ List[j].token_address \notin DOMAIN snapBefore
       /\ NewTokenCount(lastEvents, List[j].token_address) = 1

PriceChanged(list) ==
  SelectSeq(Indices(list), LAMBDA i :
    /\ HasBaseline(list, i)
    /\ Abs(list[i].price_sol - Baseline(list, i)[1].price_sol) > PriceThreshold)

ExpectedPriceUpdates(list) ==
  [k \in 1..Len(PriceChanged(list)) |->
    LET i == PriceChanged(list)[k]
    IN [token_address |-> list[i].token_address,
        old_price |-> Baseline(list, i)[1].price_sol,
        new_price |-> list[i].price_sol]]

PushedPriceUpdates ==
  LET entries == Pushed(lastEvents, "price_update")
  IN [k \in 1..Len(entries) |->
       [token_address |-> entries[k].token_address,
        old_price |-> entries[k].old_price,
        new_price |-> entries[k].new_price]]

\* C8: for every fetched token that has a snapshot entry, price_update holds an
\* entry for it iff |price - snapshot price| exceeds the price threshold, and
\* the entry carries old_price = snapshot price, new_price = fetched price.
C8_PriceUpdateIffBeyondThreshold ==
  lastList # Absent => PushedPriceUpdates = ExpectedPriceUpdates(List)

\* C8 witness: a cycle pushed a price_update and also diffed a token whose
\* price moved by no more than the threshold
C8_Witness ==
  /\ lastList # Absent
  /\ PushedPriceUpdates # <<>>
  /\ \E i \in 1..Len(List) :
       /\ HasBaseline(List, i)
       /\ List[i].price_sol # Baseline(List, i)[1].price_sol
       /\ Abs(List[i].price_sol - Baseline(List, i)[1].price_sol) <= PriceThreshold

\* a rise of more than 20 percent: 100 * (new - old) / old > 20, old >= 0
RisesOverTwentyPercent(new, old) == 5 * (new - old) > old

VolumeSpiked(list) ==
  SelectSeq(Indices(list), LAMBDA i :
    /\ HasBaseline(list, i)
    /\ Abs(list[i].volume_sol - Baseline(list, i)[1].volume_sol) > VolumeThreshold
    /\ RisesOverTwentyPercent(list[i].volume_sol, Baseline(list, i)[1].volume_sol))

ExpectedVolumeSpikes(list) ==
  [k \in 1..Len(VolumeSpiked(list)) |->
    LET i == VolumeSpiked(list)[k]
    IN [token_address |-> list[i].token_address,
        old_volume |-> Baseline(list, i)[1].volume_sol,
        new_volume |-> list[i].volume_sol]]

PushedVolumeSpikes ==
  LET entries == Pushed(lastEvents, "volume_spike")
  IN [k \in 1..Len(entries) |->
       [token_address |-> entries[k].token_address,
        old_volume |-> entries[k].old_volume,
        new_volume |-> entries[k].new_volume]]

\* 100 * diff / of = 25
IsTwentyFivePercent(pct) == pct.of > 0 /\ 4 * pct.diff = pct.of

\* a pushed entry for the rise of the volume from 100 to 125 SOL
IsRise100To125(entry) ==
  entry.old_volume = 100000000 /\ entry.new_volume = 125000000

\* C9: for every fetched token with a snapshot entry, volume_spike holds an
\* entry for it iff its volume changed beyond the volume threshold and rose by
\* strictly more than 20 percent; a rise from 100 to 125 at an unchanged price
\* gives an entry with spike_percent 25 and no price_update entry.
C9_VolumeSpikeIffOverTwentyPercent ==
  lastList # Absent =>
    /\ PushedVolumeSpikes = ExpectedVolumeSpikes(List)
    /\ \A i \in 1..Len(List) :
         (/\ HasBaseline(List, i)
          /\ Baseline(List, i)[1].volume_sol = 100000000
          /\ List[i].volume_sol = 125000000
          /\ Baseline(List, i)[1].price_sol = List[i].price_sol)
         => LET spikes == Pushed(lastEvents, "volume_spike")
                prices == Pushed(lastEvents, "price_update")
            IN /\ \E k \in 1..Len(spikes) :
                    /\ spikes[k].token_address = List[i].token_address
                    /\ IsRise100To125(spikes[k])
                    /\ IsTwentyFivePercent(spikes[k].spike_percent)
               /\ ~\E k \in 1..Len(prices) :
                     /\ prices[k].token_address = List[i].token_address
                     /\ prices[k].new_price = List[i].price_sol
                     /\ prices[k].old_price = List[i].price_sol

\* C9 witness: a cycle pushed a volume_spike with spike_percent 25 for a rise
\* from 100 to 125 and pushed no price_update
C9_Witness ==
  /\ lastList # Absent
  /\ \E k \in 1..Len(Pushed(lastEvents, "volume_spike")) :
       /\ IsRise100To125(Pushed(lastEvents, "volume_spike")[k])
       /\ IsTwentyFivePercent(Pushed(lastEvents, "volume_spike")[k].spike_percent)
  /\ CountType(lastEvents, "price_update") = 0

BatchTypes == {"tokens_updated", "price_update", "volume_spike"}

\* C10 (as claimed): within one cycle each event type is pushed at most once.
C10_EachTypeOncePerCycle ==
  \A type \in BatchTypes \cup {"new_token"} : CountType(lastEvents, type) <= 1

\* the valid addresses of the list that had no snapshot entry
NewAddresses(list) ==
  { list[i].token_address : i \in 1..Len(list) }
    \ (DOMAIN snapBefore \cup {<<>>})

\* C10 (amended): within one cycle tokens_updated, price_update and
\* volume_spike are each pushed at most once, the one push carrying the array
\* of all affected items; new_token is pushed once per newly seen token, each
\* push carrying that one token.
C10_BatchTypesOncePerCycle ==
  /\ \A type \in BatchTypes : CountType(lastEvents, type) <= 1
  /\ \A k \in 1..Len(lastEvents) :
       IF lastEvents[k].type = "new_token"
       THEN lastEvents[k].data \in CyclePool
       ELSE Len(lastEvents[k].data) >= 1
  /\ lastList # Absent =>
       /\ CountType(lastEvents, "new_token") = Cardinality(NewAddresses(List))
       /\ Len(Pushed(lastEvents, "price_update")) = Len(PriceChanged(List))
       /\ Len(Pushed(lastEvents, "volume_spike")) = Len(VolumeSpiked(List))

\* C10 witness: a cycle pushed new_token twice and one tokens_updated holding
\* two tokens
C10_Witness ==
  /\ CountType(lastEvents, "new_token") >= 2
  /\ \E k \in 1..Len(lastEvents) :
       lastEvents[k].type = "tokens_updated" /\ Len(lastEvents[k].data) >= 2
----------------------------------------------------------------------------
(* Source failures (SpecAgg) *)

\* the addresses, as map keys, of the records of a list
KeysOf(list) == { toLowerCase(list[i].token_address) : i \in 1..Len(list) }

\* the call ran with exactly one of the two upstreams failing
ExactlyOneSourceFailed == dexUpstream.ok # jupUpstream.ok

\* what the source that did not fail answered
SucceededTokens == IF dexUpstream.ok THEN dexUpstream.tokens ELSE jupUpstream.tokens

\* C11: when exactly one of the two source clients fails during a search on a
\* cache miss, search returns normally (its result is a list) and the list is
\* the deduplicated answer of the other source: one record per lowercased
\* address of that answer, every record of a single-record group unchanged,
\* and not empty when that answer was not empty.
C11_OneSourceFailsOtherReturned ==
  (aggOp = "search" /\ ExactlyOneSourceFailed) =>
    /\ KeysOf(aggOut) = KeysOf(SucceededTokens)
    /\ Len(aggOut) = Cardinality(KeysOf(SucceededTokens))
    /\ \A i \in 1..Len(SucceededTokens) :
         Len(Group(SucceededTokens,
                   toLowerCase(SucceededTokens[i].token_address))) = 1
           => \E j \in 1..Len(aggOut) : aggOut[j] = SucceededTokens[i]
    /\ (SucceededTokens # <<>> => aggOut # <<>>)

\* DexScreener rejects, Jupiter answers with a record: the record is returned
C11_Witness ==
  /\ aggOp = "search"
  /\ ~dexUpstream.ok
  /\ jupUpstream.ok
  /\ jupUpstream.tokens # <<>>
  /\ aggOut # <<>>
  /\ KeysOf(aggOut) = KeysOf(jupUpstream.tokens)

\* C12: no failure of a source client is surfaced to the caller of the
\* aggregator: search returns a list, and listFiltered, with a search string
\* and on the 'popular' path, returns a page and never throws.
C12_NoSourceFailureSurfaced ==
  aggOp \in {"list_search", "list_popular"} => aggOut.status # "error"

\* the part of C12 that holds: with a search string a failing source is an
\* empty contribution
ListSearchNeverThrows ==
  aggOp = "list_search" => aggOut.status = "ok"

----------------------------------------------------------------------------
(* Rate limiter (SpecLimiter) *)

\* the calls that run canMakeRequest: a direct call, an attempt of waitForSlot
AdmissionOps == {"canMakeRequest", "waitForSlot:attempt"}

\* admitted requests of an identifier at the instants of the window opened at s
AdmittedIn(identifier, s) ==
  Len(SelectSeq(admitLog[identifier], LAMBDA e : s <= e /\ e < s + windowMs))

\* in every window opened for an identifier, at most maxRequests admissions
AtMostMaxPerWindow ==
  maxRequests >= 1 =>
    \A identifier \in Identifiers : \A s \in windowLog[identifier] :
      AdmittedIn(identifier, s) <= maxRequests

\* one admission call, before and after
AdmissionStep ==
  (maxRequests >= 1 /\ rlLast'.op \in AdmissionOps) =>
    LET identifier == rlLast'.identifier
        info == requestCounts[identifier]
        after == requestCounts'[identifier]
    IN \* a rejection leaves the count and the window as they were
       /\ ~rlLast'.result =>
            /\ info # Absent
            /\ after[1].requests = info[1].requests
            /\ after[1].windowStart = info[1].windowStart
       \* inside a window that has admitted maxRequests, the call is rejected
       /\ (info # Absent /\ now < info[1].windowStart + windowMs
             /\ AdmittedIn(identifier, info[1].windowStart) >= maxRequests)
            => ~rlLast'.result
       \* inside a window that has admitted fewer, the call is admitted
       /\ (info # Absent /\ now < info[1].windowStart + windowMs
             /\ AdmittedIn(identifier, info[1].windowStart) < maxRequests)
            => rlLast'.result /\ after[1].windowStart = info[1].windowStart
       \* at or after the end of the window the call is admitted and opens a
       \* new window with count 1
       /\ (info # Absent /\ now >= info[1].windowStart + windowMs)
            => rlLast'.result /\ after = Some(RateLimitInfo(1, now, FALSE))

\* C13: fixed-window admission, for maxRequests >= 1: in every window of every
\* identifier at most maxRequests calls of canMakeRequest return true; a
\* further call inside the window returns false and leaves the count
\* unchanged; the first call at or after the window's end returns true and
\* opens a new window with count 1.
C13_FixedWindowAdmission == []AtMostMaxPerWindow /\ [][AdmissionStep]_vars

\* a window of two admissions is full and the third call is rejected
C13_Witness ==
  /\ maxRequests = 2
  /\ rlLast.op = "canMakeRequest"
  /\ ~rlLast.result
  /\ requestCounts[rlLast.identifier] # Absent
  /\ AdmittedIn(rlLast.identifier,
                requestCounts[rlLast.identifier][1].windowStart) = 2

\* a window that began after an earlier window of the identifier had run out
RolledOver ==
  /\ maxRequests >= 1 /\ windowMs > 0
  /\ rlLast.op = "canMakeRequest" /\ rlLast.result
  /\ requestCounts[rlLast.identifier] = Some(RateLimitInfo(1, now, FALSE))
  /\ now >= windowMs
  /\ \E e \in 1..Len(admitLog[rlLast.identifier]) :
       admitLog[rlLast.identifier][e] < now

\* what a waitForSlot call has done so far agrees with its contract
WaitForSlotContract ==
  LET attempts == Len(waiter.outcomes)
      rejected == { i \in 1..attempts : ~waiter.outcomes[i] }
  IN \* at most maxRetries attempts, only the last of them admitted
     /\ attempts <= waiter.maxRetries
     /\ \A i \in 1..attempts : waiter.outcomes[i] => i = attempts
     \* a sleep of baseDelay * 2^retries follows every rejected attempt, and
     \* the next attempt is not made before it is over
     /\ Len(waiter.delays) = Cardinality(rejected)
     /\ \A i \in 1..Len(waiter.delays) :
          waiter.delays[i] = baseDelay * pow(2, i - 1)
     /\ \A i \in 1..attempts - 1 :
          waiter.times[i + 1] >= waiter.times[i] + waiter.delays[i]
     \* true is returned at the first admitted attempt
     /\ (attempts > 0 /\ waiter.outcomes[attempts])
          => waiter.pc = "done" /\ waiter.result
     /\ (waiter.pc = "done" /\ waiter.result)
          => attempts > 0 /\ waiter.outcomes[attempts]
     \* false is returned only after maxRetries rejected attempts
     /\ (waiter.pc = "done" /\ ~waiter.result)
          => attempts = waiter.maxRetries /\ Cardinality(rejected) = attempts
     /\ waiter.pc = "sleeping" => attempts > 0 /\ ~waiter.outcomes[attempts]

\* C14: waitForSlot(identifier, maxRetries) terminates; it makes at most
\* maxRetries admission attempts separated by backoff sleeps, returns true at
\* the first admitted attempt and false only when all maxRetries attempts
\* were rejected.
C14_WaitForSlotTerminates ==
  /\ []WaitForSlotContract
  /\ (waiter.pc = "sleeping") ~> (waiter.pc = "done")

\* a call of two retries was rejected, slept, and was admitted on its second
\* attempt
C14_Witness ==
  /\ waiter.pc = "done"
  /\ waiter.maxRetries = 2
  /\ waiter.outcomes = <<FALSE, TRUE>>
  /\ waiter.result

\* a call of two retries gave up: both attempts were rejected
GaveUp ==
  /\ waiter.pc = "done"
  /\ waiter.maxRetries = 2
  /\ waiter.outcomes = <<FALSE, FALSE>>
  /\ ~waiter.result

\* the calls C15 speaks of: canMakeRequest, waitForSlot and reset
PerIdentifierOps ==
  {"canMakeRequest", "waitForSlot:attempt", "waitForSlot:return", "reset"}

\* a call for one identifier leaves the entry of every other identifier alone
OtherIdentifiersUntouched ==
  rlLast'.op \in PerIdentifierOps =>
    \A b \in Identifiers \ {rlLast'.identifier} :
      requestCounts'[b] = requestCounts[b]

\* a rejection is owed to the admissions of the rejected identifier itself
RejectedOnItsOwnCount ==
  (rlLast.op \in AdmissionOps /\ ~rlLast.result) =>
    /\ requestCounts[rlLast.identifier] # Absent
    /\ AdmittedIn(rlLast.identifier,
                  requestCounts[rlLast.identifier][1].windowStart) >= maxRequests

\* C15: windows are independent per identifier: canMakeRequest, waitForSlot
\* and reset for identifier A leave the count and the window start of every
\* other identifier B unchanged, and B is rejected only when B's own window
\* has admitted maxRequests.
C15_IdentifiersIndependent ==
  [][OtherIdentifiersUntouched]_vars /\ []RejectedOnItsOwnCount

\* 'search' is exhausted and blocked in its running window, and 'token' is
\* admitted
C15_Witness ==
  /\ maxRequests >= 1
  /\ requestCounts["search"] # Absent
  /\ requestCounts["search"][1].blocked
  /\ requestCounts["search"][1].requests = maxRequests
  /\ now < requestCounts["search"][1].windowStart + windowMs
  /\ rlLast.op = "canMakeRequest"
  /\ rlLast.identifier = "token"
  /\ rlLast.result

\* how many calls of canMakeRequest in a row return true at instant t, counted
\* up to fuel
RECURSIVE ConsecutiveAdmits(_, _, _, _)
ConsecutiveAdmits(counts, identifier, t, fuel) ==
  IF fuel = 0 THEN 0
  ELSE LET r == canMakeRequest(counts, identifier, t)
       IN IF r.result
          THEN 1 + ConsecutiveAdmits(r.requestCounts, identifier, t, fuel - 1)
          ELSE 0

\* getRemainingRequests has just answered what canMakeRequest would admit
RemainingIsAdmissible ==
  rlLast.op = "getRemainingRequests" =>
    /\ rlLast.value >= 0
    /\ rlLast.value =
         ConsecutiveAdmits(requestCounts, rlLast.identifier, now, maxRequests + 2)

\* C16: getRemainingRequests(identifier) always equals the number of
\* consecutive canMakeRequest(identifier) calls that would return true at the
\* same instant (and changes no limiter state).
C16_RemainingEqualsAdmissible == RemainingIsAdmissible

\* C16 amended: the same for a limiter with maxRequests >= 1 and windowMs > 0:
\* maxRequests when the identifier has no window or its window has expired,
\* otherwise maxRequests minus the requests counted in the window.
C16_RemainingEqualsAdmissibleForPositiveLimits ==
  (maxRequests >= 1 /\ windowMs > 0) =>
    /\ RemainingIsAdmissible
    /\ rlLast.op = "getRemainingRequests" =>
         LET info == requestCounts[rlLast.identifier]
         IN rlLast.value =
              IF info = Absent \/ now >= info[1].windowStart + windowMs
              THEN maxRequests
              ELSE maxRequests - info[1].requests

\* one of two requests is used: one remains; and a window has run out: both do
C16_Witness ==
  /\ maxRequests = 2 /\ windowMs > 0
  /\ rlLast.op = "getRemainingRequests"
  /\ requestCounts[rlLast.identifier] # Absent
  /\ \/ /\ now < requestCounts[rlLast.identifier][1].windowStart + windowMs
        /\ rlLast.value = 1
     \/ /\ now >= requestCounts[rlLast.identifier][1].windowStart + windowMs
        /\ requestCounts[rlLast.identifier][1].requests = 2
        /\ rlLast.value = 2

----------------------------------------------------------------------------
(* Cache (SpecCache) *)

\* the calls of CacheService that return to a caller
CacheOps == {"get", "set", "delete", "deletePattern", "exists", "ttl"}

\* a call made while not connected, or on which the client raised, returned
\* the degraded answer, and made while not connected it did not ask the client
DegradedAnswer ==
  (cacheLast.op \in CacheOps /\ (~cacheLast.connected \/ cacheLast.failed)) =>
    /\ cacheLast.value = Absent
    /\ ~cacheLast.ok
    /\ cacheLast.count = IF cacheLast.op = "ttl" THEN 0 - 1 ELSE 0
    /\ ~cacheLast.connected => ~cacheLast.contacted

\* such a call leaves the store as it was
DegradedCallIsNoOp ==
  (cacheLast'.op \in CacheOps /\ (~cacheLast'.connected \/ cacheLast'.failed))
    => redis' = redis

\* C17: no cache operation throws: called while the store is marked
\* disconnected, or when the client raises, get returns absent, set, delete
\* and exists return false, deletePattern returns 0 and ttl returns -1, and
\* while disconnected none of them contacts the backing store.
C17_CacheDegradesToMiss == []DegradedAnswer /\ [][DegradedCallIsNoOp]_vars

\* the client raised on a get of a key that is in the store: a miss
C17_Witness ==
  /\ cacheLast.op = "get"
  /\ cacheLast.failed
  /\ redis[cacheLast.key] # Absent
  /\ cacheLast.value = Absent

\* a call made while disconnected, with a live key in the store
DisconnectedCall ==
  /\ cacheLast.op \in CacheOps
  /\ ~cacheLast.connected
  /\ \E k \in GenericKeys : redis[k] # Absent

\* C18: while the store is connected, get(k) returns a value equal to the
\* value of the latest set(k, v, ttl) until ttl seconds have passed since that
\* set, and absent once they have.
C18_RoundTripWithExpiry ==
  (cacheLast.op = "get" /\ cacheLast.connected /\ ~cacheLast.failed
     /\ lastSet[cacheLast.key] # Absent) =>
    IF lastSet[cacheLast.key][1].ttl > 0
    THEN cacheLast.value = Some(lastSet[cacheLast.key][1].value)
    ELSE cacheLast.value = Absent

\* a list whose token lacks its price changes came back as it was set
C18_Witness ==
  /\ cacheLast.op = "get"
  /\ cacheLast.value # Absent
  /\ Len(cacheLast.value[1]) = 1
  /\ cacheLast.value[1][1].price_1hr_change = Absent
  /\ cacheLast.value[1][1].last_updated = Some(1)
  /\ lastSet[cacheLast.key] # Absent
  /\ cacheLast.value = Some(lastSet[cacheLast.key][1].value)

\* a get after the ttl of the last set had run out
ExpiredRead ==
  /\ cacheLast.op = "get" /\ cacheLast.connected /\ ~cacheLast.failed
  /\ lastSet[cacheLast.key] # Absent
  /\ lastSet[cacheLast.key][1].ttl = 0
  /\ cacheLast.value = Absent

\* a deletePattern that returns, served by the client without an error: what
\* it removed, what it left and what it answered
DeletePatternExact ==
  (cacheLast'.op = "deletePattern" /\ cacheLast'.connected /\ ~cacheLast'.failed)
    => LET matching == clientKeys(redis, cacheLast'.key)
           removed == { k \in CacheKeys : redis[k] # Absent /\ redis'[k] = Absent }
       IN /\ removed = matching
          /\ \A k \in CacheKeys \ matching : redis'[k] = redis[k]
          /\ cacheLast'.count = Cardinality(removed)

\* C19: deletePattern(pattern) removes exactly the live keys that match the
\* pattern, leaves every other key and its value unchanged, and returns the
\* number of keys removed (0 when nothing matches).
C19_DeletePatternExact == [][DeletePatternExact]_vars

\* the same for a deletePattern whose DEL follows its KEYS with nothing in
\* between
DeletePatternExactUninterrupted ==
  [][(scan = Absent \/ cacheLast.op = "deletePattern:keys") => DeletePatternExact]_vars

\* every key a deletePattern leaves changed matches its pattern
DeletePatternFrame ==
  [][cacheLast'.op = "deletePattern" =>
       \A k \in CacheKeys : redis'[k] # redis[k] => GlobMatch(cacheLast'.key, k)]_vars

\* two keys went and the third stayed
TwoOfThreeDeleted ==
  /\ cacheLast.op = "deletePattern"
  /\ cacheLast.count = 2
  /\ redis[<<"x", ":", "1">>] # Absent
  /\ redis[<<"q", ":", "1">>] = Absent
  /\ redis[<<"q", ":", "2">>] = Absent

----------------------------------------------------------------------------
(* Cached search (SpecSearch)                                              *)

\* the list a successful set stored last under the key of a query, while its
\* ttl has not run out
LiveListIn(sets, query) ==
  IF sets[SearchKey(query)] # Absent /\ sets[SearchKey(query)][1].ttl > 0
  THEN Some(sets[SearchKey(query)][1].value)
  ELSE Absent

LiveList(query) == LiveListIn(lastSet, query)

\* a search answered by the cache: no source client is called, the store is
\* left alone and the list is the one stored last under the key of its query
SearchHitStep ==
  (searchCall = Absent /\ searchCall' = Absent /\ searchLast'.op = "search"
     /\ searchLast'.hit /\ cacheLast'.op = "get") =>
    /\ searchLast'.dexCalls = 0 /\ searchLast'.jupCalls = 0
    /\ Some(searchLast'.result) = LiveList(searchLast'.query)
    /\ redis' = redis

\* a search that missed calls each source client once and, when the store
\* takes the set, leaves the merged list it returns under the key of its
\* query for CACHE_TTL seconds, every other key untouched
SearchMissStep ==
  (searchCall # Absent /\ searchCall' = Absent) =>
    /\ searchLast'.op = "search" /\ ~searchLast'.hit
    /\ searchLast'.query = searchCall[1]
    /\ searchLast'.dexCalls = 1 /\ searchLast'.jupCalls = 1
    /\ (cacheLast'.connected /\ ~cacheLast'.failed) =>
         /\ redis'[SearchKey(searchCall[1])] =
              Some(Entry(JSONstringify(searchLast'.result), CACHE_TTL))
         /\ LiveListIn(lastSet', searchCall[1]) = Some(searchLast'.result)
    /\ \A k \in CacheKeys \ {SearchKey(searchCall[1])} : redis'[k] = redis[k]

\* a search goes to the sources only when the store is disconnected, the get
\* failed, or no list stored for its query is still within its ttl
SearchGoesToSources ==
  (searchCall = Absent /\ searchCall' # Absent) =>
    \/ ~cacheLast'.connected
    \/ cacheLast'.failed
    \/ LiveList(searchCall'[1]) = Absent

\* C20: aggregator search is cache-through. A hit on the key of the query
\* returns the cached list and calls no source client; a miss calls both
\* source clients and stores the merged list under that key; a later search
\* of the same query, before the ttl runs out and with the store connected,
\* returns an equal list and calls no source client.
C20_SearchIsCacheThrough ==
  [][SearchHitStep /\ SearchMissStep /\ SearchGoesToSources]_vars

\* a search answered from the cache with a list merged from both sources
C20_Witness ==
  /\ searchLast.op = "search"
  /\ searchLast.hit
  /\ cacheLast.op = "get"
  /\ Len(searchLast.result) = 1
  /\ searchLast.result[1].token_name = "n1"
  /\ searchLast.result[1].volume_sol = 245000000

\* a search answered from the cache with the empty list
EmptyHit ==
  /\ searchLast.op = "search"
  /\ searchLast.hit
  /\ searchLast.result = <<>>

----------------------------------------------------------------------------
(* Filters of listFiltered (SpecAgg)                                       *)

ListOps == {"list_search", "list_popular"}

\* the base token set of the list operation that ran
BaseSet ==
  IF aggOp = "list_search"
  THEN searchTokens(dexScreenerSearchTokens(dexUpstream),
                    jupiterSearchTokens(jupUpstream))
  ELSE dexUpstream.tokens

RequestedMinVolume == Default(aggQuery.minVolume, 0)
RequestedPeriod == Default(aggQuery.period, "24h")

\* the price-change member of a period; no source client sets price_7d_change
PeriodField(token, period) ==
  CASE period = "1h" -> token.price_1hr_change
    [] period = "24h" -> token.price_24hr_change
    [] period = "7d" -> Absent

\* the base-set tokens that pass the filters as listFiltered applies them: the
\* volume floor, and the 1h change under period 1h
PassingCount ==
  Cardinality({ i \in 1..Len(BaseSet) :
                  /\ BaseSet[i].volume_sol >= RequestedMinVolume
                  /\ RequestedPeriod = "1h" => BaseSet[i].price_1hr_change # Absent })

\* C22: every token returned by listFiltered has a volume greater than or
\* equal to the requested minVolume, and pagination.total counts exactly the
\* base-set tokens that pass the filters.
C22_MinVolumeAndTotal ==
  (aggOp \in ListOps /\ aggOut.status = "ok") =>
    /\ \A i \in 1..Len(aggOut.data) :
         aggOut.data[i].volume_sol >= RequestedMinVolume
    /\ aggOut.total = PassingCount

\* a list with a positive floor: a token below it is dropped, a token at it is
\* kept, and total is larger than the page
C22_Witness ==
  /\ aggOp \in ListOps /\ aggOut.status = "ok"
  /\ RequestedMinVolume > 0
  /\ \E i \in 1..Len(BaseSet) : BaseSet[i].volume_sol < RequestedMinVolume
  /\ \E i \in 1..Len(aggOut.data) : aggOut.data[i].volume_sol = RequestedMinVolume
  /\ aggOut.total > Len(aggOut.data)

\* C23: for each period value (1h, 24h, 7d), listFiltered drops every token
\* that lacks the price-change field of that period.
C23_PeriodFieldPresent ==
  (aggOp \in ListOps /\ aggOut.status = "ok") =>
    \A i \in 1..Len(aggOut.data) :
      PeriodField(aggOut.data[i], RequestedPeriod) # Absent

\* the part of C23 that holds: under period 1h no returned token lacks its
\* 1h change
PeriodOneHourEnforced ==
  (aggOp \in ListOps /\ aggOut.status = "ok" /\ RequestedPeriod = "1h") =>
    \A i \in 1..Len(aggOut.data) : aggOut.data[i].price_1hr_change # Absent

\* a token without a 24h change returned under period 24h
Returned24hWithoutChange ==
  /\ aggOp \in ListOps /\ aggOut.status = "ok"
  /\ RequestedPeriod = "24h"
  /\ \E i \in 1..Len(aggOut.data) : aggOut.data[i].price_24hr_change = Absent

\* a token returned under period 7d
Returned7d ==
  /\ aggOp \in ListOps /\ aggOut.status = "ok"
  /\ RequestedPeriod = "7d"
  /\ aggOut.data # <<>>

----------------------------------------------------------------------------
(* Merge and volume (SpecAgg)                                              *)

BothPresentSameAddress ==
  /\ aggOp = "by_address"
  /\ pairIn[1] # Absent /\ pairIn[2] # Absent
  /\ toLowerCase(pairIn[1][1].token_address) = toLowerCase(pairIn[2][1].token_address)

\* C30: merge is commutative on volume: for two records A and B of one
\* address, merge(A,B).volume = merge(B,A).volume = A.volume + B.volume,
\* whichever of them is the base record.
C30_MergeVolumeCommutes ==
  BothPresentSameAddress =>
    /\ aggOut[1].volume_sol = pairIn[1][1].volume_sol + pairIn[2][1].volume_sol
    /\ mergeTokenData(pairIn[2], pairIn[1])[1].volume_sol = aggOut[1].volume_sol

\* two records with positive volumes merged, the second being the base one way
\* round and the first the other
C30_Witness ==
  /\ BothPresentSameAddress
  /\ pairIn[1][1].volume_sol > 0 /\ pairIn[2][1].volume_sol > 0
  /\ pairIn[1][1].volume_sol # pairIn[2][1].volume_sol
  /\ aggOut[1].token_name = pairIn[2][1].token_name
  /\ mergeTokenData(pairIn[2], pairIn[1])[1].token_name # aggOut[1].token_name

----------------------------------------------------------------------------
(* Stopping the broadcaster (Spec)                                         *)

\* the step that is stop(): the snapshot map and the cycles in flight are
\* left as they are
StopStep ==
  (isRunning /\ ~isRunning') =>
    /\ previousTokenData' = previousTokenData
    /\ inFlight' = inFlight
    /\ ~updateInterval'

\* once stopped: never running again, and no cycle is started
AfterStop ==
  ~isRunning => (~isRunning' /\ ~updateInterval' /\ inFlight' <= inFlight)

\* a cycle in flight after stop() can still run its diff pass to the end
InFlightCompletes ==
  (~isRunning /\ inFlight > 0) => ENABLED CycleDiffPass

\* C28: stopping is cooperative: after stop() no new polling cycle is ever
\* started; a cycle whose fetch is in flight at the moment of stop() is not
\* aborted and runs to completion; stop() does not clear the snapshot map.
C28_StopIsCooperative ==
  []InFlightCompletes /\ [][StopStep /\ AfterStop]_vars

\* stopped with a fetch in flight and a snapshot map that has entries
C28_Witness ==
  /\ ~isRunning
  /\ inFlight > 0
  /\ previousTokenData # <<>>

\* stopped, the last cycle done, the snapshot map still holding its entries
StoppedAndDrained ==
  /\ ~isRunning
  /\ inFlight = 0
  /\ previousTokenData # <<>>

----------------------------------------------------------------------------
(* Pagination (SpecPage)                                                   *)

RECURSIVE Concat(_)
Concat(lists) == IF lists = <<>> THEN <<>> ELSE Head(lists) \o Concat(Tail(lists))

WalkLimit == walk.query.limit[1]

\* the tokens of the base set that pass the filters of the walk
WalkPassing ==
  { t \in { walk.tokens[i] : i \in 1..Len(walk.tokens) } :
      /\ t.volume_sol >= walk.query.minVolume[1]
      /\ walk.query.period[1] = "1h" => t.price_1hr_change # Absent }

\* the list is in the requested order of the requested field
InRequestedOrder(list) ==
  \A i, j \in 1..Len(list) :
    i < j => IF walk.query.order[1] = "asc"
             THEN SortKey(list[i], walk.query.sortBy[1])
                    <= SortKey(list[j], walk.query.sortBy[1])
             ELSE SortKey(list[i], walk.query.sortBy[1])
                    >= SortKey(list[j], walk.query.sortBy[1])

\* the pages received so far: each of at most L tokens, pairwise disjoint, in
\* order, full unless last; the cursor received with page k is k * L as a
\* string, and is absent exactly when k * L reaches the total
PagesSoFar ==
  /\ \A k \in 1..Len(walk.pages) :
       /\ Len(walk.pages[k]) <= WalkLimit
       /\ walk.nexts[k] # Absent => Len(walk.pages[k]) = WalkLimit
       /\ walk.nexts[k] # Absent => walk.nexts[k] = Some(toString(k * WalkLimit))
       /\ walk.nexts[k] = Absent <=> k * WalkLimit >= walk.total
  /\ \A k, m \in 1..Len(walk.pages) :
       k # m => \A i \in 1..Len(walk.pages[k]), j \in 1..Len(walk.pages[m]) :
                  walk.pages[k][i].token_address # walk.pages[m][j].token_address
  /\ InRequestedOrder(Concat(walk.pages))
  /\ \A i \in 1..Len(Concat(walk.pages)) : Concat(walk.pages)[i] \in WalkPassing

\* the walk is over: the pages together are the filtered list, each passing
\* token once
WalkComplete ==
  walk.done =>
    /\ { Concat(walk.pages)[i] : i \in 1..Len(Concat(walk.pages)) } = WalkPassing
    /\ Len(Concat(walk.pages)) = Cardinality(WalkPassing)
    /\ Len(Concat(walk.pages)) = walk.total

\* C21: pagination over a fixed token set: starting with no cursor and
\* following nextCursor with a fixed limit L >= 1 yields pairwise disjoint
\* pages of at most L tokens whose concatenation is exactly the filtered list
\* in the requested sort order; nextCursor is the next offset as a string and
\* is absent exactly on the page that reaches the end, so the walk terminates.
C21_PaginationWalk ==
  [](PagesSoFar /\ WalkComplete) /\ <>(walk.done)

\* a walk of three pages over three tokens, the last page reaching the end
C21_Witness ==
  /\ walk.done
  /\ Len(walk.pages) = 3
  /\ Len(Concat(walk.pages)) = 3
  /\ walk.nexts = <<Some(<<"1">>), Some(<<"2">>), Absent>>

\* a walk whose last page is short
ShortLastPage ==
  /\ walk.done
  /\ Len(walk.pages) = 2
  /\ WalkLimit = 2
  /\ Len(walk.pages[2]) = 1

----------------------------------------------------------------------------
(* Request validation (SpecController)                                     *)

SortByValues == {"volume", "price_change", "market_cap", "liquidity"}
OrderValues == {"asc", "desc"}
PeriodValues == {"1h", "24h", "7d"}
ErrorCodes == {"INVALID_LIMIT", "INVALID_SORT_BY", "INVALID_ORDER", "INVALID_PERIOD"}

\* the query handed to the aggregator is a valid one
ValidQuery(q) ==
  /\ ~IsNaN(q.limit) /\ q.limit[1] \in 1..100
  /\ q.sortBy \in SortByValues
  /\ q.order \in OrderValues
  /\ q.period \in PeriodValues

\* the request as the controller reads it, defaults filled in
AsRead(req) == controllerQuery(req)

\* C24: validation failures never reach the core: the controller calls
\* getFilteredTokens only when limit is an integer in [1,100] and sortBy, order
\* and period are in their allowed sets; every other request (limit out of
\* range or not a number, unknown sortBy, order or period) is answered with a
\* 400 error carrying a specific code, and the aggregator is not called.
C24_ValidationShieldsCore ==
  ctl.op = "getTokens" =>
    /\ ctl.called => ValidQuery(ctl.query)
    /\ ~ValidQuery(AsRead(ctl.request)) =>
         (ctl.status = 400 /\ ctl.code \in ErrorCodes /\ ~ctl.called)

\* the part of C24 that holds: a request whose limit parses to a number
C24_HoldsForNumericLimit ==
  (ctl.op = "getTokens" /\ ~IsNaN(AsRead(ctl.request).limit)) =>
    /\ ctl.called => ValidQuery(ctl.query)
    /\ ~ValidQuery(AsRead(ctl.request)) =>
         (ctl.status = 400 /\ ctl.code \in ErrorCodes /\ ~ctl.called)

\* a request with limit=abc reached the aggregator with limit NaN
NaNLimitReachedCore ==
  /\ ctl.op = "getTokens"
  /\ ctl.request.limit = Some(<<"a", "b", "c">>)
  /\ ctl.called
  /\ IsNaN(ctl.query.limit)

\* a request with limit=150 was answered 400 INVALID_LIMIT
OverLimitRejected ==
  /\ ctl.op = "getTokens"
  /\ ctl.request.limit = Some(<<"1", "5", "0">>)
  /\ ctl.status = 400 /\ ctl.code = "INVALID_LIMIT" /\ ~ctl.called

----------------------------------------------------------------------------
(* getByAddress (SpecToken)                                                *)

\* the record a source yields for the address: none when it fails or has none
Yielded(answer) ==
  IF answer.ok /\ answer.tokens # <<>> THEN Some(Head(answer.tokens)) ELSE Absent

\* a call that went to the sources has returned
TokenFromSources == tokenLast.op = "token" /\ ~tokenLast.hit

\* what it returned, by what the sources yielded
TokenResultBySources ==
  TokenFromSources =>
    LET d == Yielded(tokenLast.dex)
        j == Yielded(tokenLast.jup)
    IN /\ tokenLast.result = Absent <=> (d = Absent /\ j = Absent)
       /\ (d # Absent /\ j = Absent) => tokenLast.result = d
       /\ (d = Absent /\ j # Absent) => tokenLast.result = j
       /\ (d # Absent /\ j # Absent) =>
            /\ tokenLast.result = mergeTokenData(d, j)
            /\ tokenLast.result[1].volume_sol = d[1].volume_sol + j[1].volume_sol

\* a call that returns null writes nothing to the store; one that returns a
\* token from the sources leaves it under the key of the address when the
\* store takes the set, and touches no other key
TokenStep ==
  (tokenLast.op = "miss" /\ tokenLast'.op = "token") =>
    /\ tokenLast'.address = tokenLast.address
    /\ tokenLast'.result = Absent => (redis' = redis /\ lastSet' = lastSet)
    /\ (tokenLast'.result # Absent /\ isConnected /\ ~cacheLast'.failed) =>
         redis'[TokenKey(tokenLast.address)] =
           Some(Entry(JSONstringify(tokenLast'.result), CACHE_TTL))
    /\ \A k \in CacheKeys \ {TokenKey(tokenLast.address)} : redis'[k] = redis[k]

\* a hit returns a token, never null
TokenHit ==
  (tokenLast.op = "token" /\ tokenLast.hit) =>
    (tokenLast.result # Absent /\ tokenLast.dexCalls = 0 /\ tokenLast.jupCalls = 0)

NullNotCached ==
  /\ TokenFromSources
  /\ ~tokenLast.dex.ok /\ ~tokenLast.jup.ok
  /\ tokenLast.result = Absent
  /\ isConnected
  /\ redis[TokenKey(tokenLast.address)] = Absent

\* both sources had the record: the merge is returned
BothMerged ==
  /\ TokenFromSources
  /\ Yielded(tokenLast.dex) # Absent /\ Yielded(tokenLast.jup) # Absent
  /\ tokenLast.result[1].volume_sol = 125000000

----------------------------------------------------------------------------
(* invalidateCache (SpecInvalidate)                                        *)

\* a key under the aggregator's own prefix
UnderOwnPrefix(key) == key # <<>> /\ <<Head(key)>> = CACHE_PREFIX

\* an invalidateCache() without a pattern has returned
InvalidateReturns ==
  /\ cacheLast'.op = "deletePattern"
  /\ cacheLast'.key = invalidatePattern(Absent)

\* the keys outside the aggregator's prefix, those of the source clients
\* among them, are as they were
OutsideUnchanged == \A k \in CacheKeys : ~UnderOwnPrefix(k) => redis'[k] = redis[k]

\* what the call removed and what it answered: the live keys under the prefix
\* and their number
InvalidateExact ==
  (InvalidateReturns /\ cacheLast'.connected /\ ~cacheLast'.failed)
    => LET own == { k \in CacheKeys : redis[k] # Absent /\ UnderOwnPrefix(k) }
           removed == { k \in CacheKeys : redis[k] # Absent /\ redis'[k] = Absent }
       IN /\ removed = own
          /\ cacheLast'.count = Cardinality(removed)
          /\ OutsideUnchanged

\* C26: invalidate() without a pattern deletes exactly the cache keys under
\* the aggregator's own prefix and returns how many were removed; the keys
\* of the provider caches and every key outside the prefix are unchanged.
C26_InvalidateOwnPrefix == [][InvalidateExact]_vars

\* no step of an invalidateCache() changes a key outside the prefix, and the
\* keys it goes on to delete are all under the prefix
InvalidateFrame ==
  /\ [](scan # Absent /\ scan[1].pattern = invalidatePattern(Absent)
          => \A k \in scan[1].keys : UnderOwnPrefix(k))
  /\ [][InvalidateReturns \/ (scan' # Absent /\ scan = Absent) => OutsideUnchanged]_vars

\* the claim for a call with nothing between its KEYS and its DEL
InvalidateExactUninterrupted ==
  [][(scan = Absent \/ cacheLast.op = "deletePattern:keys") => InvalidateExact]_vars

\* an invalidation removed the aggregator's two lists and left both source
\* clients' lists in the store
ProviderCachesSurvive ==
  /\ cacheLast.op = "deletePattern"
  /\ cacheLast.key = invalidatePattern(Absent)
  /\ cacheLast.count = 2
  /\ redis[SearchKey(<<"a">>)] = Absent
  /\ redis[PopularKey] = Absent
  /\ redis[ProviderKey("dexscreener", <<"a">>)] # Absent
  /\ redis[ProviderKey("jupiter", <<"a">>)] # Absent

\* a count returned for a key that had already run out of time
CountedButNotRemoved ==
  /\ cacheLast.op = "deletePattern"
  /\ cacheLast.key = invalidatePattern(Absent)
  /\ cacheLast.count = 1
  /\ cacheLast.ok
  /\ lastSet[PopularKey] # Absent
  /\ lastSet[PopularKey][1].ttl = 0

----------------------------------------------------------------------------
(* Search of a source client (SpecSource)                                  *)

SourceKey(s) == ProviderKey(s.client, s.query)

\* a searchTokens call is made in this step
SearchBegins == source.pc \in {"idle", "done"} /\ source' # source

\* only the limiter of the client that is searching is ever asked
OwnLimiterOnly ==
  \A c \in Clients :
    source'.limiters[c] # source.limiters[c] => c = source'.client

\* a call served from the provider cache: the entry was live, its list is
\* returned, no limiter map has changed, no request is sent, nothing is
\* written
SourceHitStep ==
  (SearchBegins /\ source'.hit)
    => /\ isConnected /\ redis[SourceKey(source')] # Absent
       /\ source'.result =
            Returned(JSONparse(redis[SourceKey(source')][1].value))
       /\ source'.limiters = source.limiters
       /\ source'.pc = "done" /\ source'.requests = 0 /\ source'.sets = 0
       /\ redis' = redis

\* a call the cache did not serve goes to waitForSlot before anything else
SourceMissStep ==
  (SearchBegins /\ ~source'.hit)
    => /\ source'.pc \in {"admit", "upstream", "done"}
       /\ source'.pc = "done" => source'.refused
       /\ source'.limiters[source'.client]["search"] # Absent

\* the request is sent only in the step in which the client's own limiter
\* has admitted the call
SourceRequestStep ==
  (source'.pc = "upstream" /\ source.pc # "upstream")
    => /\ source'.admitted /\ ~source'.hit /\ source'.requests = 1
       /\ LET info == source'.limiters[source'.client]["search"]
          IN info # Absent /\ info[1].requests >= 1
               /\ now - info[1].windowStart < windowMs

\* a call that was refused has sent nothing and written nothing, and ends
\* as a failure (DexScreener) or as the empty list (Jupiter)
SourceRefused ==
  source.refused
    => /\ source.pc = "done" /\ source.requests = 0 /\ source.sets = 0
       /\ source.client = "dexscreener" => source.result.kind = "thrown"
       /\ source.client = "jupiter"
            => source.result = [kind |-> "returned", tokens |-> <<>>]

\* the store changes only when a 200 has come back to an admitted call, and
\* then only under the key of that call, to the list the call returns
SourceCacheStep ==
  redis' # redis
    => /\ source.pc = "upstream" /\ source.admitted /\ source.requests = 1
       /\ source'.status = 200 /\ source'.pc = "done"
       /\ \A k \in CacheKeys : redis'[k] # redis[k] => k = SourceKey(source)
       /\ source'.result =
            Returned(JSONparse(redis'[SourceKey(source)][1].value))

\* C27: in a source client's search a provider-cache hit consumes no limiter
\* slot and sends no request; on a miss admission is asked of the client's
\* own limiter before the request; a refused call sends no request and ends
\* as a failure or as an empty list; the result is cached only after a
\* successful response.
C27_SourceSearchOrder ==
  /\ []SourceRefused
  /\ [](source.sets > 0 => source.status = 200 /\ source.admitted)
  /\ [][/\ OwnLimiterOnly /\ SourceHitStep /\ SourceMissStep
        /\ SourceRequestStep /\ SourceCacheStep]_vars

\* a miss that was admitted, answered with records and cached
C27_Witness ==
  /\ source.pc = "done" /\ ~source.hit /\ source.admitted
  /\ source.requests = 1 /\ source.status = 200 /\ source.sets = 1
  /\ source.result.tokens # <<>>
  /\ redis[SourceKey(source)] # Absent

\* a hit on a cached empty list, with the limiter at its one earlier admission
EmptyListHit ==
  /\ source.pc = "done" /\ source.hit /\ source.result.tokens = <<>>
  /\ source.limiters["dexscreener"]["search"] # Absent
  /\ source.limiters["dexscreener"]["search"][1].requests = 1

JupiterRefused ==
  /\ source.refused /\ source.client = "jupiter"
  /\ source.result = [kind |-> "returned", tokens |-> <<>>]

DexScreenerRefused ==
  /\ source.refused /\ source.client = "dexscreener"
  /\ source.result.kind = "thrown"

\* a 429 whose interceptor is sleeping in waitForSlot('global')
BackingOffAfter429 == source.pc = "backoff" /\ source.status = 429

----------------------------------------------------------------------------
(* initial_data on connection (SpecConnect)                                *)

\* the step belongs to a connection: the connection event, the settling of
\* sendInitialData, or the client going away
ConnectionStep == sockets'.conn # sockets.conn

\* a socket is sent initial_data at most once
AtMostOnePush == \A id \in SocketIds : Len(sockets.conn[id].pushes) <= 1

\* the push goes to the socket whose sendInitialData settles and to no other
PushToConnectingOnly ==
  \A id \in SocketIds :
    sockets'.conn[id].pushes # sockets.conn[id].pushes
      => /\ sockets.conn[id].pending /\ ~sockets'.conn[id].pending
         /\ sockets.conn[id].state = "open"
         /\ \A other \in SocketIds \ {id} : sockets'.conn[other] = sockets.conn[other]

Descending(list) ==
  \A i \in 1..Len(list) - 1 : list[i].volume_sol >= list[i + 1].volume_sol

\* the payload: at most 30 tokens by volume descending, as many as the base
\* list allows, the largest volumes of the base list
TopByVolume(data, base) ==
  /\ Len(data) = Min(30, Len(base))
  /\ Descending(data)
  /\ \A i \in 1..Len(data) : \E j \in 1..Len(base) : base[j] = data[i]
  /\ \A j \in 1..Len(base) :
       data = <<>> \/ base[j].volume_sol <= data[Len(data)].volume_sol
         \/ \E i \in 1..Len(data) : data[i] = base[j]

\* the base list that a settling sendInitialData has read
BaseRead == popularTokens(redis, isConnected, dexUpstream).tokens

PushCarriesTop ==
  \A id \in SocketIds :
    sockets'.conn[id].pushes # sockets.conn[id].pushes
      => /\ BaseRead.status = "fulfilled"
         /\ TopByVolume(sockets'.conn[id].pushes[1], BaseRead.value)

\* a failed fetch sends nothing and leaves the connection as it is
FailedFetchSendsNothing ==
  sockets'.settled = "failed"
    => \A id \in SocketIds :
         /\ sockets'.conn[id].pushes = sockets.conn[id].pushes
         /\ sockets'.conn[id].state = sockets.conn[id].state

\* no step of a connection touches the snapshot map or emits a change event
SnapshotUntouched ==
  sockets'.settled # "cycle"
    => /\ previousTokenData' = previousTokenData
       /\ lastEvents' = lastEvents

\* every cycle pushes the change events it would push had no client ever
\* connected
CycleAsWithoutPushes ==
  sockets.settled = "cycle" => lastEvents = sockets.alone.events

\* C29: a new connection gets at most one initial_data push, sent to it
\* alone, carrying the top 30 tokens by volume descending; producing it does
\* not touch the snapshot map, it never causes or suppresses a later change
\* event, and a failed fetch sends nothing and leaves the connection open.
C29_InitialDataPush ==
  /\ [](AtMostOnePush /\ CycleAsWithoutPushes)
  /\ [][/\ PushToConnectingOnly /\ PushCarriesTop
        /\ FailedFetchSendsNothing /\ SnapshotUntouched]_vars

\* what producing the push does touch: the cached popular list, which the
\* fetch of the cycle reads as well, and no other key
PushFillsPopularOnly ==
  sockets'.settled \in {"sent", "failed"}
    => /\ \A k \in CacheKeys \ {PopularKey} : redis'[k] = redis[k]
       /\ redis[PopularKey] # Absent => redis' = redis

\* C29 amended: a new connection gets at most one initial_data push, sent to
\* it alone, carrying the top 30 tokens by volume descending; producing it
\* does not touch the snapshot map and pushes no change event, it reads and
\* on a miss fills the cached popular list that the cycle reads too; a
\* failed fetch sends nothing and leaves the connection open.
C29_InitialDataPushSharesCache ==
  /\ []AtMostOnePush
  /\ [][/\ PushToConnectingOnly /\ PushCarriesTop /\ PushFillsPopularOnly
        /\ FailedFetchSendsNothing /\ SnapshotUntouched]_vars

\* one socket has its push, of two tokens in order, and the other is still
\* waiting for its own
C29_Witness ==
  /\ sockets.conn["s1"].pushes # <<>>
  /\ Len(sockets.conn["s1"].pushes[1]) = 2
  /\ sockets.conn["s2"].pending /\ sockets.conn["s2"].pushes = <<>>

\* a fetch failed and the socket is open without a push
FailedStaysOpen ==
  /\ sockets.settled = "failed"
  /\ \E id \in SocketIds :
       /\ sockets.conn[id].state = "open" /\ ~sockets.conn[id].pending
       /\ sockets.conn[id].pushes = <<>>

\* a push filled the cache
PushFilledCache ==
  /\ sockets.settled = "sent"
  /\ redis[PopularKey] # Absent
  /\ sockets.alone.redis[PopularKey] = Absent

\* a cycle read the list that a push had cached and pushed no event, while
\* the copy without clients pushed some
CycleSuppressed ==
  /\ sockets.settled = "cycle"
  /\ lastEvents = <<>>
  /\ sockets.alone.events # <<>>

----------------------------------------------------------------------------
(* The tokens_updated batch (Spec)                                         *)

\* the fetched tokens that are new, or whose price or volume is beyond its
\* threshold away from the snapshot entry they are compared with
Changed(list) ==
  SelectSeq(Indices(list), LAMBDA i :
    /\ list[i].token_address # <<>>
    /\ \/ ~HasBaseline(list, i)
       \/ Abs(list[i].price_sol - Baseline(list, i)[1].price_sol) > PriceThreshold
       \/ Abs(list[i].volume_sol - Baseline(list, i)[1].volume_sol) > VolumeThreshold)

ExpectedUpdates(list) ==
  [k \in 1..Len(Changed(list)) |-> list[Changed(list)[k]]]

AddressesOf(items) == { items[k].token_address : k \in 1..Len(items) }

VolumeFallInBatch ==
  /\ lastList # Absent
  /\ \E i \in 1..Len(List) :
       /\ HasBaseline(List, i)
       /\ List[i].price_sol = Baseline(List, i)[1].price_sol
       /\ List[i].volume_sol < Baseline(List, i)[1].volume_sol
  /\ CountType(lastEvents, "tokens_updated") = 1
  /\ CountType(lastEvents, "volume_spike") = 0
  /\ CountType(lastEvents, "price_update") = 0
  /\ CountType(lastEvents, "new_token") = 0

\* a cycle with a list and no tokens_updated
NothingChanged ==
  /\ lastList # Absent /\ List # <<>> /\ lastEvents = <<>>

----------------------------------------------------------------------------
(* The snapshot after a cycle (Spec)                                       *)

\* C32: at the end of every completed cycle the snapshot entry of each
\* fetched token with a valid identifier equals the fetched token in every
\* field, whether or not a change was detected.
C32_SnapshotIsFetchedToken ==
  lastList # Absent =>
    \A i \in 1..Len(List) :
      List[i].token_address # <<>> =>
        /\ List[i].token_address \in DOMAIN previousTokenData
        /\ previousTokenData[List[i].token_address] = List[i]

\* later positions of the list that hold the address of position i
Later(list, i) ==
  { j \in (i + 1)..Len(list) : list[j].token_address = list[i].token_address }

\* the same for the last fetched record of each identifier, which is every
\* record when no identifier is fetched twice
SnapshotIsLastFetched ==
  lastList # Absent =>
    \A i \in 1..Len(List) :
      (List[i].token_address # <<>> /\ Later(List, i) = {}) =>
        /\ List[i].token_address \in DOMAIN previousTokenData
        /\ previousTokenData[List[i].token_address] = List[i]

\* a price drift within the threshold pushed no price_update and moved the
\* baseline
DriftMovedBaseline ==
  /\ lastList # Absent /\ CountType(lastEvents, "price_update") = 0
  /\ \E i \in 1..Len(List) :
       /\ HasBaseline(List, i) /\ Later(List, i) = {} /\ Earlier(List, i) = {}
       /\ List[i].price_sol # snapBefore[List[i].token_address].price_sol
       /\ previousTokenData[List[i].token_address] = List[i]

----------------------------------------------------------------------------
(* Entries are never evicted (Spec)                                        *)

FetchedAddresses(list) == { list[i].token_address : i \in 1..Len(list) }

\* no step removes a key, and a key outside the list fetched in the step
\* keeps its entry
KeysKept ==
  /\ DOMAIN previousTokenData \subseteq DOMAIN previousTokenData'
  /\ \A a \in DOMAIN previousTokenData :
       (lastList' = Absent \/ previousTokenData' = previousTokenData
          \/ a \notin FetchedAddresses(lastList'[1]))
         => previousTokenData'[a] = previousTokenData[a]

\* a fetched token whose address has an entry is compared with that entry
\* and is not reported as new
RetainedEntryIsBaseline ==
  lastList # Absent =>
    \A i \in 1..Len(List) :
      (List[i].token_address \in DOMAIN snapBefore /\ Earlier(List, i) = {})
        => /\ NewTokenCount(lastEvents, List[i].token_address) = 0
           /\ Baseline(List, i) = Some(snapBefore[List[i].token_address])
           /\ \A k \in 1..Len(Pushed(lastEvents, "price_update")) :
                LET e == Pushed(lastEvents, "price_update")[k]
                IN (e.token_address = List[i].token_address
                      /\ e.new_price = List[i].price_sol)
                     => \/ e.old_price = snapBefore[List[i].token_address].price_sol
                        \/ \E j \in Earlier(List, i) \cup Later(List, i) :
                             e.old_price = List[j].price_sol

\* C33: the key set of the snapshot map never shrinks: a token missing from
\* a later fetch keeps its last snapshot, and when it is fetched again it is
\* diffed against that entry instead of being reported as new_token.
C33_SnapshotNeverEvicts == []RetainedEntryIsBaseline /\ [][KeysKept]_vars

\* C33 witness: a cycle fetched a list without an address the map holds, and
\* the entry is as it was
C33_Witness ==
  /\ lastList # Absent /\ List # <<>>
  /\ \E a \in DOMAIN snapBefore :
       /\ a \notin FetchedAddresses(List)
       /\ a \in DOMAIN previousTokenData
       /\ previousTokenData[a] = snapBefore[a]

\* a token fetched again is diffed against its entry: a price_update and no
\* new_token, while another address of the map is missing from the fetch
DiffedAgainstRetained ==
  /\ lastList # Absent
  /\ CountType(lastEvents, "price_update") = 1
  /\ CountType(lastEvents, "new_token") = 0
  /\ \E a \in DOMAIN snapBefore : a \notin FetchedAddresses(List)

----------------------------------------------------------------------------
(* The percentages of the events (Spec)                                    *)

\* the percentage is the quotient the claim names
PercentOf(pct, new, old) == pct = Percent(new, old)

\* the quotient is a number: its divisor is not 0
Defined(pct) == pct.of # 0

\* C34: every price_update entry has change_percent = (new_price -
\* old_price) / old_price * 100, every volume_spike entry has spike_percent =
\* (new_volume - old_volume) / old_volume * 100, and the percentage is a
\* defined number: no event is built from a division by a prior price or
\* prior volume of 0.
C34_PercentDefined ==
  /\ \A k \in 1..Len(Pushed(lastEvents, "price_update")) :
       LET e == Pushed(lastEvents, "price_update")[k]
       IN PercentOf(e.change_percent, e.new_price, e.old_price)
            /\ Defined(e.change_percent)
  /\ \A k \in 1..Len(Pushed(lastEvents, "volume_spike")) :
       LET e == Pushed(lastEvents, "volume_spike")[k]
       IN PercentOf(e.spike_percent, e.new_volume, e.old_volume)
            /\ Defined(e.spike_percent)

\* the quotient is the one named whenever an event is pushed
PercentIsQuotient ==
  /\ \A k \in 1..Len(Pushed(lastEvents, "price_update")) :
       LET e == Pushed(lastEvents, "price_update")[k]
       IN PercentOf(e.change_percent, e.new_price, e.old_price)
  /\ \A k \in 1..Len(Pushed(lastEvents, "volume_spike")) :
       LET e == Pushed(lastEvents, "volume_spike")[k]
       IN PercentOf(e.spike_percent, e.new_volume, e.old_volume)

\* a price_update built from a prior price of 0
PriceUpdateFromZero ==
  \E k \in 1..Len(Pushed(lastEvents, "price_update")) :
    Pushed(lastEvents, "price_update")[k].old_price = 0

\* a volume_spike built from a prior volume of 0
VolumeSpikeFromZero ==
  \E k \in 1..Len(Pushed(lastEvents, "volume_spike")) :
    Pushed(lastEvents, "volume_spike")[k].old_volume = 0

----------------------------------------------------------------------------
(* The connection flag (SpecLifecycle)                                     *)

LifecycleEvents == {"connect", "error", "close", "disconnect"}

CacheOperations == {"get", "set", "delete", "exists", "ttl", "deletePattern"}

\* the step is the event or the call named, as cacheLast records it
Happens(op) == cacheLast'.op = op /\ cacheLast' # cacheLast

\* the flag after a step is true when the step is a connect event, false
\* when it is another lifecycle event, and what it was in every other step
FlagFollowsEvents ==
  /\ Happens("connect") => getConnectionStatus'
  /\ (\E e \in LifecycleEvents \ {"connect"} : Happens(e)) => ~getConnectionStatus'
  /\ (\A e \in LifecycleEvents : ~Happens(e)) =>
       getConnectionStatus' = getConnectionStatus

\* an operation called while the flag is false misses, touches nothing and
\* does not contact the store (scan = Absent: the step is a call, not the
\* DEL of a deletePattern called earlier)
MissWhileDown ==
  (~isConnected /\ scan = Absent /\ \E op \in CacheOperations : Happens(op))
    => /\ redis' = redis
       /\ ~cacheLast'.contacted
       /\ ~cacheLast'.ok
       /\ cacheLast'.value = Absent
       /\ ~isConnected'

\* C35: connectionStatus() is false initially and true exactly when the
\* most recent lifecycle event among connect, error, close and disconnect()
\* was connect; reconnecting leaves it unchanged, and after an error or
\* close every cache operation called is a miss or a no-op until the next
\* connect event.
C35_ConnectionStatus ==
  /\ ~getConnectionStatus
  /\ [][FlagFollowsEvents /\ MissWhileDown]_vars
  /\ [](cacheLast.op \in LifecycleEvents
          => (getConnectionStatus <=> cacheLast.op = "connect"))

\* C35 witness: after a connect and a close, with a value in the store, a
\* get is answered with a miss
C35_Witness ==
  /\ ~getConnectionStatus
  /\ cacheLast.op = "get"
  /\ redis[cacheLast.key] # Absent
  /\ cacheLast.value = Absent
  /\ ~cacheLast.contacted

\* a reconnecting event while the flag is false
ReconnectingWhileDown ==
  cacheLast.op = "reconnecting" /\ ~getConnectionStatus /\ \E k \in CacheKeys : redis[k] # Absent

\* a reconnecting event while the flag is true
ReconnectingWhileUp == cacheLast.op = "reconnecting" /\ getConnectionStatus

\* the DEL of a deletePattern called before the connection closed removes
\* keys while the flag is false
DelAfterClose ==
  /\ ~getConnectionStatus
  /\ cacheLast.op = "deletePattern"
  /\ cacheLast.count > 0

----------------------------------------------------------------------------
(* What cleanup purges (SpecCleanup)                                       *)

\* the step removes the entry of the identifier
Purged(identifier) ==
  requestCounts[identifier] # Absent /\ requestCounts'[identifier] = Absent

\* the step is a run of cleanup
CleanupRuns == rlLast'.op = "cleanup"

\* the time since the last admission check of the identifier
IdleFor(identifier) == now - purge.lastCheck[identifier][1]

\* the time since the window of the identifier began
WindowAge(identifier) == now - requestCounts[identifier][1].windowStart

ExpiredButKept ==
  /\ rlLast.op = "cleanup"
  /\ \E i \in Identifiers :
       /\ requestCounts[i] # Absent
       /\ now - requestCounts[i][1].windowStart >= windowMs
       /\ windowMs > 0

----------------------------------------------------------------------------
(* Cleanup and admission (SpecCleanup)                                     *)

\* the window of the entry is running at instant t
Running(counts, identifier, t) ==
  counts[identifier] # Absent /\ t - counts[identifier][1].windowStart < windowMs

\* the last call returned what it returns when cleanup never runs
SameAnswer ==
  rlLast.op \in {"canMakeRequest", "getRemainingRequests"} => rlLast = purge.alone

\* a running window counts the same requests whether or not cleanup has run
SameWindows ==
  \A i \in Identifiers :
    (Running(requestCounts, i, now) \/ Running(purge.uncleaned, i, now))
      => requestCounts[i] = purge.uncleaned[i]

\* an entry is removed only by cleanup and only when its window is over
PurgedAfterExpiry ==
  \A i \in Identifiers :
    Purged(i) => CleanupRuns /\ ~Running(requestCounts, i, now)

\* C39: cleanup is invisible to admission: it removes only identifiers
\* whose window has expired, so running it at any point changes neither the
\* result of any later canMakeRequest or getRemainingRequests call nor the
\* number of requests admitted in any window.
C39_CleanupInvisible ==
  [](SameAnswer /\ SameWindows) /\ [][PurgedAfterExpiry]_vars

\* C39 witness: getRemainingRequests is asked about an identifier that
\* cleanup has purged and that the map never cleaned still holds
C39_Witness ==
  /\ rlLast.op = "getRemainingRequests"
  /\ requestCounts[rlLast.identifier] = Absent
  /\ purge.uncleaned[rlLast.identifier] # Absent
  /\ rlLast.value = maxRequests
  /\ windowMs > 0 /\ maxRequests > 0

\* canMakeRequest after a purge opens the window that the map never cleaned
\* opens too: the two maps agree again on the identifier
AdmittedAfterPurge ==
  /\ rlLast.op = "canMakeRequest" /\ rlLast.result
  /\ now >= 2 * windowMs /\ windowMs > 0
  /\ requestCounts[rlLast.identifier] = purge.uncleaned[rlLast.identifier]
  /\ \E j \in Identifiers : requestCounts[j] = Absent /\ purge.uncleaned[j] # Absent

----------------------------------------------------------------------------
(* A cycle whose fetch fails (Spec)                                        *)

\* the step ends a cycle whose fetch threw
CycleFailed == inFlight' = inFlight - 1 /\ lastList' = Absent

\* the step ends a cycle whose fetch returned a list
CyclePassed == inFlight' = inFlight - 1 /\ lastList' # Absent

\* a failed cycle pushes nothing and leaves the map, the flag and the timer
FailureChangesNothing ==
  CycleFailed => /\ lastEvents' = <<>>
                 /\ previousTokenData' = previousTokenData
                 /\ newCount' = newCount
                 /\ updateInterval' = updateInterval
                 /\ isRunning' = isRunning

\* a cycle that passes right after a failed one diffs against the map the
\* failed one found
NextCycleDiffsSameMap ==
  (lastList = Absent /\ CyclePassed)
    => /\ snapBefore' = snapBefore
       /\ previousTokenData' = DiffPass(snapBefore, lastList'[1]).previousTokenData
       /\ lastEvents' = DiffPass(snapBefore, lastList'[1]).events

\* the last cycle failed while the service runs
FailedWhileRunning ==
  /\ lastList = Absent /\ snapBefore = previousTokenData
  /\ isRunning /\ previousTokenData # <<>>

\* C38: a cycle whose aggregate fetch fails emits no event and leaves the
\* snapshot map unchanged; the failure does not cancel the timer, and later
\* ticks still start cycles, which diff against the unchanged snapshot.
C38_FailedCycleChangesNothing ==
  /\ [][FailureChangesNothing /\ NextCycleDiffsSameMap]_vars
  /\ [](FailedWhileRunning =>
        updateInterval /\ (inFlight < MaxInFlight => ENABLED TimerTick))

\* C38 witness: a fetch has failed over a snapshot that holds entries, the
\* timer is armed and a tick has started the next cycle
C38_Witness ==
  /\ FailedWhileRunning
  /\ lastEvents = <<>>
  /\ updateInterval
  /\ inFlight = MaxInFlight - 1

----------------------------------------------------------------------------
(* Lists cached after a source failed (SpecPartial)                        *)

\* the step is a miss settling: the sources have answered or failed
SearchSettles == searchCall # Absent /\ searchCall' = Absent

\* the step is a call of searchTokens up to the answer of the cache
SearchCalled(query) ==
  /\ searchCall = Absent
  /\ cacheLast'.op = "get" /\ cacheLast'.key = SearchKey(query)
  /\ <<cacheLast', searchLast', searchCall'>> # <<cacheLast, searchLast, searchCall>>

\* the cache took the command of the step
StoreAnswered == cacheLast'.connected /\ ~cacheLast'.failed

\* the merged list of the miss is under the key of the query
MergedListStored ==
  /\ redis'[SearchKey(searchCall[1])] =
       Some(Entry(JSONstringify(searchLast'.result), CACHE_TTL))
  /\ LiveListIn(lastSet', searchCall[1]) = Some(searchLast'.result)

\* the search is answered with the list stored last and no source is called
ServedFromCache(query) ==
  /\ searchLast'.op = "search" /\ searchLast'.hit
  /\ searchLast'.query = query
  /\ Some(searchLast'.result) = LiveList(query)
  /\ searchLast'.dexCalls = 0 /\ searchLast'.jupCalls = 0
  /\ searchCall' = Absent

\* C40: on a search cache miss the merged list is stored under the query
\* key even when one or both sources failed, and that partial or empty list
\* is served to every search of the same query until the ttl expires or the
\* key is invalidated, without the sources being queried again.
C40_PartialListServed ==
  [][/\ SearchSettles => MergedListStored
     /\ \A query \in Queries :
          (SearchCalled(query) /\ LiveList(query) # Absent)
            => ServedFromCache(query)]_vars

\* a miss on which Jupiter failed returns what DexScreener alone gave, and
\* one on which both failed returns the empty list
PartialResult ==
  (searchLast.op = "search" /\ ~searchLast.hit) =>
    /\ "jupiter" \in searchLast.failed =>
         \A i \in 1..Len(searchLast.result) :
           searchLast.result[i].token_name # "j1"
             /\ searchLast.result[i].volume_sol # 245000000
    /\ searchLast.failed = {"dexscreener", "jupiter"} => searchLast.result = <<>>
    /\ searchLast.result = <<>> => searchLast.failed # {}

\* C40 with the cache in the picture: while the cache is connected and
\* answers, the merged list of a miss is stored under the query key even
\* when one or both sources failed, and that partial or empty list is served
\* to every search of the same query until the ttl expires or the key is
\* invalidated, without the sources being queried again.
C40_PartialListServedWhileConnected ==
  /\ []PartialResult
  /\ [][/\ (SearchSettles /\ StoreAnswered) => MergedListStored
        /\ \A query \in Queries :
             (SearchCalled(query) /\ StoreAnswered /\ LiveList(query) # Absent)
               => ServedFromCache(query)]_vars

\* C40 witness: a miss on which both sources failed has left the empty list
\* under the key of its query
C40_Witness ==
  /\ searchLast.op = "search" /\ ~searchLast.hit
  /\ searchLast.failed = {"dexscreener", "jupiter"}
  /\ searchLast.result = <<>>
  /\ redis[SearchKey(searchLast.query)] = Some(Entry(JSONstringify(<<>>), CACHE_TTL))
  /\ LiveList(searchLast.query) = Some(<<>>)

\* a search is answered from the cache with the empty list: only a miss on
\* which a source failed stores it
EmptyListServed ==
  /\ searchLast.op = "search" /\ searchLast.hit
  /\ searchLast.result = <<>>
  /\ cacheLast.op = "get"

\* a search goes to the sources although a list is stored for its query:
\* the cache is not connected
LiveButMissed ==
  /\ searchLast.op = "miss"
  /\ LiveList(searchLast.query) # Absent
  /\ ~cacheLast.connected

\* after an invalidation a search of the query goes to the sources again
MissAfterInvalidation ==
  /\ searchLast.op = "miss"
  /\ cacheLast.connected /\ ~cacheLast.failed
  /\ lastSet[SearchKey(searchLast.query)] = Absent
  /\ \E q \in Queries : LiveList(q) # Absent

----------------------------------------------------------------------------
(* The diff pass is not interleaved (SpecPass)                             *)

OpenIds == { p.id : p \in eventLoop.open }

\* while a pass is between its first read and its last emit, the next
\* callback step is that pass: no other pass begins or goes on, no timer
\* fires, no initial_data is sent and no room changes
OnlyThePassRuns ==
  eventLoop.open # {} =>
    /\ eventLoop'.last.kind \in {"iteration", "emit"}
    /\ OpenIds = {eventLoop'.last.id}
    /\ sockets' = sockets
    /\ inFlight' = inFlight

\* the entry an iteration reads was written by its own pass or by a pass
\* that has finished
ReadsSettledEntries ==
  eventLoop'.last.kind = "iteration" =>
    eventLoop'.last.readFrom \in {0, eventLoop'.last.id}

\* no two passes are open together
OnePassAtATime == Cardinality(eventLoop.open) <= 1

\* a pass taken iteration by iteration leaves the map and pushes the events
\* of the pass taken as one step
PassAsOneStep ==
  eventLoop.last.kind = "emit" =>
    /\ previousTokenData = DiffPass(snapBefore, lastList[1]).previousTokenData
    /\ lastEvents = DiffPass(snapBefore, lastList[1]).events

\* C37: the diff pass of a cycle, from its first read of the snapshot map to
\* the emission of its last event, runs atomically: it is never interleaved
\* with another cycle's diff pass, an initial_data send or a subscribe or
\* unsubscribe handler, even when the fetches of two cycles overlap, so
\* every snapshot entry a cycle reads was written by a completed earlier
\* pass or by this pass.
C37_DiffPassAtomic ==
  /\ [](OnePassAtATime /\ PassAsOneStep)
  /\ [][OnlyThePassRuns /\ ReadsSettledEntries]_vars

\* C37 witness: a pass is in its second iteration while the fetch of another
\* cycle is in flight and a socket has its initial data and a room
C37_Witness ==
  /\ \E p \in eventLoop.open : p.i = 2 /\ Len(p.currentTokens) = 2
  /\ inFlight > 0
  /\ previousTokenData # <<>>
  /\ snapBefore # <<>>
  /\ sockets.initial /\ sockets.rooms # {}

\* an iteration read an entry its own pass had written
ReadOwnEntry ==
  eventLoop.last.kind = "iteration" /\ eventLoop.last.readFrom = eventLoop.last.id

\* a pass over two tokens has emitted after the pass of an overlapping cycle
TwoPassesBackToBack ==
  /\ eventLoop.last.kind = "emit"
  /\ Len(lastList[1]) = 2
  /\ snapBefore # <<>>
  /\ lastEvents # <<>>

====
